---- MODULE Spec2Model ----
(***************************************************************************)
(* The daily art puzzle: the client game session of the Home component     *)
(* (guess submission with its in-flight lock, give-up, puzzle loading and  *)
(* the progress kept in localStorage), the earlier revision of the client  *)
(* without the submit lock, the stateless guess endpoint, the puzzle       *)
(* endpoint with its date resolver, and the feedback functions.            *)
(*                                                                         *)
(* Text is a sequence of one-character tokens (<<"K","l","e","e">>), so    *)
(* that trimming, lower-casing and diacritic stripping are computed.       *)
(* An optional value is <<>> (null/undefined) or <<v>>.                    *)
(***************************************************************************)
EXTENDS Integers, Sequences, FiniteSets, TLC

\* ------------------------------------------------------------------ text

UpperChars == << "A", "B", "C", "D", "E", "G", "J", "K", "L", "M", "N", "O",
                 "T", "V", "Z", "E_acute" >>
LowerChars == << "a", "b", "c", "d", "e", "g", "j", "k", "l", "m", "n", "o",
                 "t", "v", "z", "e_acute" >>

\* String.prototype.toLowerCase, one character
ToLowerChar(c) ==
  IF \E i \in 1..Len(UpperChars) : UpperChars[i] = c
    THEN LowerChars[CHOOSE i \in 1..Len(UpperChars) : UpperChars[i] = c]
    ELSE c

\* String.prototype.toUpperCase, one character
ToUpperChar(c) ==
  IF \E i \in 1..Len(LowerChars) : LowerChars[i] = c
    THEN UpperChars[CHOOSE i \in 1..Len(LowerChars) : LowerChars[i] = c]
    ELSE c

\* String.prototype.normalize('NFD'), one character: a precomposed letter
\* becomes its base letter followed by the combining mark U+0301
NFDChar(c) ==
  CASE c = "e_acute" -> << "e", "U+0301" >>
    [] c = "E_acute" -> << "E", "U+0301" >>
    [] OTHER -> << c >>

\* the character class U+0300..U+036F that normalizeString removes
IsCombiningMark(c) == c = "U+0301"

IsSpace(c) == c = " "

ToLowerCase(s) == [i \in 1..Len(s) |-> ToLowerChar(s[i])]

RECURSIVE NFD(_)
NFD(s) == IF s = << >> THEN << >> ELSE NFDChar(Head(s)) \o NFD(Tail(s))

StripMarksChar(c) == IF IsCombiningMark(c) THEN << >> ELSE << c >>

RECURSIVE StripMarks(_)
StripMarks(s) ==
  IF s = << >> THEN << >> ELSE StripMarksChar(Head(s)) \o StripMarks(Tail(s))

RECURSIVE TrimStart(_)
TrimStart(s) ==
  IF s # << >> /\ IsSpace(Head(s)) THEN TrimStart(Tail(s)) ELSE s

RECURSIVE TrimEnd(_)
TrimEnd(s) ==
  IF s # << >> /\ IsSpace(s[Len(s)])
    THEN TrimEnd(SubSeq(s, 1, Len(s) - 1))
    ELSE s

\* String.prototype.trim
Trim(s) == TrimEnd(TrimStart(s))

\* the client's normalizeString: lower case, NFD, combining marks removed
\* (it does not trim; handleSubmit trims before it normalizes)
normalizeString(s) == StripMarks(NFD(ToLowerCase(s)))

\* str.split(' ').filter(Boolean): the non-empty space-delimited tokens
RECURSIVE SplitTokens(_, _)
SplitTokens(s, cur) ==
  IF s = << >>
    THEN IF cur = << >> THEN << >> ELSE << cur >>
    ELSE IF IsSpace(Head(s))
      THEN (IF cur = << >> THEN << >> ELSE << cur >>) \o SplitTokens(Tail(s), << >>)
      ELSE SplitTokens(Tail(s), Append(cur, Head(s)))

\* the first token instead of the last
FirstToken(s) ==
  LET toks == SplitTokens(s, << >>)
  IN IF toks = << >> THEN << >> ELSE toks[1]

\* art.artist.split(' ').filter(Boolean).pop() || ''
LastToken(s) ==
  LET toks == SplitTokens(s, << >>)
  IN IF toks = << >> THEN << >> ELSE toks[Len(toks)]

DigitChars == << "0", "1", "2", "3", "4", "5", "6", "7", "8", "9" >>
IsDigit(c) == \E i \in 1..10 : DigitChars[i] = c
DigitValue(c) == (CHOOSE i \in 1..10 : DigitChars[i] = c) - 1

RECURSIVE ParseDigits(_, _)
ParseDigits(s, acc) ==
  IF s # << >> /\ IsDigit(Head(s))
    THEN ParseDigits(Tail(s), acc * 10 + DigitValue(Head(s)))
    ELSE acc

\* parseInt(text, 10) for unsigned text: the leading digits, or NaN (<<>>)
\* when the text does not start with a digit
ParseInt(s) ==
  LET t == TrimStart(s)
  IN IF t # << >> /\ IsDigit(Head(t)) THEN << ParseDigits(t, 0) >> ELSE << >>

RECURSIVE ToDigits(_)
\* String(n) for n >= 0
ToDigits(n) ==
  IF n < 10 THEN << DigitChars[n + 1] >>
  ELSE ToDigits(n \div 10) \o << DigitChars[(n % 10) + 1] >>

\* ------------------------------------------------------- reference data

None == << >>
Some(v) == << v >>
IsSome(o) == o # << >>
Val(o) == o[1]
OptionalOf(S) == { Some(x) : x \in S } \cup { None }

JoArp == << "J", "o", " ", "A", "r", "p" >>
Klee == << "K", "l", "e", "e" >>
Bel == << "B", "e", "l" >>
Cox == << "C", "o", "x" >>
Ng == << "N", "g" >>
Eve == << "E_acute", "v", "e" >>
Zed == << "Z", "e", "d" >>

Monet == << "C", "l", "a", "u", "d", "e", " ", "M", "o", "n", "e", "t" >>
Gogh == << "V", "i", "n", "c", "e", "n", "t", " ", "v", "a", "n", " ",
           "G", "o", "g", "h" >>

Dada == << "D", "a", "d", "a" >>
DadaUpper == << "D", "A", "D", "A" >>
Cobra == << "C", "o", "b", "r", "a" >>
Bern == << "B", "e", "r", "n" >>
Gand == << "G", "a", "n", "d" >>

ArtistRow(n, m, c, b, d, p) ==
  [name |-> n, movement |-> m, country |-> c, birth_year |-> b,
   death_year |-> d, popularity_score |-> p]

\* the rows of the artists table (the artist reference store)
ArtistsTable ==
  << ArtistRow(JoArp, Some(Dada), Some(Bern), Some(1886), Some(1966), Some(60)),
     ArtistRow(Klee, Some(Dada), Some(Bern), Some(1879), Some(1940), Some(80)),
     ArtistRow(Bel, Some(DadaUpper), Some(Gand), Some(1898), Some(1967), Some(67)),
     ArtistRow(Cox, Some(Cobra), None, Some(1931), None, Some(30)),
     ArtistRow(Ng, None, None, None, None, None),
     ArtistRow(Eve, Some(Cobra), Some(Gand), Some(1941), Some(1999), Some(90)) >>

\* the rows of the daily_art table the client can show: today's puzzle and
\* yesterday's (offsets 0 and -1)
DailyArt(i, a, y) == [id |-> i, artist |-> a, year |-> y]
Year1920 == << "1", "9", "2", "0" >>
Year1872 == << "1", "8", "7", "2" >>
Year1889 == << "1", "8", "8", "9" >>
YearCirca == << "c", ".", "1", "9", "0", "5" >>
PuzzleAtOffset(offset) ==
  IF offset = 0 THEN DailyArt(1, JoArp, Year1920) ELSE DailyArt(2, Klee, YearCirca)
ArtById(i) == IF i = 1 THEN PuzzleAtOffset(0) ELSE PuzzleAtOffset(-1)

\* new Date().getUTCFullYear()
CurrentYear == 2025

\* -------------------------------------------------- artist reference store

\* name ILIKE pattern without wildcards: equal up to letter case
ILikeExact(name, q) == ToLowerCase(name) = ToLowerCase(q)

\* name ILIKE %q%
ILikeContains(name, q) ==
  LET n == ToLowerCase(name)
      k == ToLowerCase(q)
  IN \E i \in 1..(Len(n) - Len(k) + 1) : SubSeq(n, i, i + Len(k) - 1) = k

TableRows == { ArtistsTable[i] : i \in 1..Len(ArtistsTable) }

\* ORDER BY popularity_score DESC LIMIT 1: a row no other row precedes (in
\* descending order the rows without a score come first)
TopByPopularity(rows) ==
  { r \in rows :
      \A o \in rows :
        \/ ~IsSome(r.popularity_score)
        \/ (IsSome(o.popularity_score)
              /\ Val(o.popularity_score) <= Val(r.popularity_score)) }

MIN_PROFILE_QUERY_LENGTH == 3
ARTIST_API_ENABLED == TRUE

\* getArtistProfile answers null without a request when the API is off or the
\* name is shorter than MIN_PROFILE_QUERY_LENGTH
ProfileNeedsRequest(name) ==
  /\ name # << >>
  /\ ARTIST_API_ENABLED
  /\ Len(Trim(name)) >= MIN_PROFILE_QUERY_LENGTH

\* what the requests of getArtistProfile can answer: the exact match, else the
\* most popular row containing the name, else null; null also on any failure
\* (the catch)
ProfileAnswers(name) ==
  LET q == Trim(name)
      exact == { r \in TableRows : ILikeExact(r.name, q) }
      fuzzy == TopByPopularity({ r \in TableRows : ILikeContains(r.name, q) })
  IN { None } \cup
     (IF exact # {} THEN { Some(r) : r \in exact } ELSE { Some(r) : r \in fuzzy })

\* getArtistRecommendations(correctArtistName, 500): the correct artist's row
\* followed by the other rows (at most 1000 of them, which is all of this
\* table; the shuffle only orders rows of distinct names)
getArtistRecommendations(artist) ==
  IF artist = << >> \/ ~ARTIST_API_ENABLED THEN << >>
  ELSE SelectSeq(ArtistsTable, LAMBDA r : ILikeContains(r.name, artist))
       \o SelectSeq(ArtistsTable, LAMBDA r : r.name # artist
                                             /\ ~ILikeContains(r.name, artist))

RECURSIVE mergeInto(_, _)
\* mergeArtistData: one entry per normalized name, in first-seen order, a
\* later entry's fields laid over the earlier entry's
mergeInto(acc, list) ==
  IF list = << >> THEN acc
  ELSE LET e == Head(list)
           k == normalizeString(e.name)
           hit == { i \in 1..Len(acc) : normalizeString(acc[i].name) = k }
       IN IF e.name = << >> THEN mergeInto(acc, Tail(list))
          ELSE IF hit = {} THEN mergeInto(Append(acc, e), Tail(list))
          ELSE mergeInto([i \in 1..Len(acc) |-> IF i \in hit THEN e ELSE acc[i]],
                         Tail(list))

mergeArtistData(lists) == mergeInto(<< >>, lists)

FALLBACK_ARTISTS == << >>

\* what loadHints can set: the merged profile and recommendations, or the
\* fallback when a request throws
HintAnswers(artist) ==
  { FALLBACK_ARTISTS } \cup
  { mergeArtistData((IF IsSome(p) THEN p ELSE << >>) \o getArtistRecommendations(artist)) :
      p \in ProfileAnswers(artist) }

\* ------------------------------------------------- feedback of the client

\* a detail whose status is always info
DetailAlwaysInfo(l, v, st) == [label |-> l, value |-> v, status |-> "info"]

Detail(l, v, st) == [label |-> l, value |-> v, status |-> st]
Dash == << "-" >>

\* artistHints.find((hint) => normalize(hint.name) === key)
FindHint(hints, key) ==
  LET hit == { i \in 1..Len(hints) : normalizeString(hints[i].name) = key }
  IN IF hit = {} THEN None
     ELSE Some(hints[CHOOSE i \in hit : \A j \in hit : i <= j])

Field(o, f) == IF IsSome(o) THEN Val(o)[f] ELSE None
\* no cap: the first argument
MinUncapped(a, b) == a

Min(a, b) == IF a <= b THEN a ELSE b
\* the number itself, sign kept
AbsSigned(a) == a

Abs(a) == IF a < 0 THEN -a ELSE a
ASSUMED_MAX_ARTIST_AGE == 85
FameThreshold == 7

\* compareField of handleSubmit
compareField(label, actual, hasMeta, guessField) ==
  IF ~IsSome(guessField) \/ Val(guessField) = << >> THEN Detail(label, Dash, "missing")
  ELSE IF ~IsSome(actual) \/ Val(actual) = << >> \/ ~hasMeta
    THEN Detail(label, Val(guessField), "info")
  ELSE Detail(label, Val(guessField),
              IF normalizeString(Val(actual)) = normalizeString(Val(guessField))
                THEN "match" ELSE "different")

\* the feedback details handleSubmit builds for an incorrect guess
ClientFeedback(artYear, artistMeta, guessedArtistData) ==
  LET birth == Field(guessedArtistData, "birth_year")
      death == Field(guessedArtistData, "death_year")
      hasBirth == IsSome(birth) /\ Val(birth) # 0
      hasDeath == IsSome(death) /\ Val(death) # 0
      y == ParseInt(artYear)
      birthDetail ==
        IF hasBirth
          THEN Detail("Birth year", ToDigits(Val(birth)),
                      IF hasDeath /\ IsSome(y) /\ Val(y) >= Val(birth)
                           /\ Val(y) <= Val(death)
                        THEN "match" ELSE "info")
          ELSE Detail("Birth year", Dash, "missing")
      deathDetail ==
        IF hasDeath
          THEN Detail("Death year", ToDigits(Val(death)),
                      IF IsSome(y) /\ Val(y) > Val(death) THEN "earlier" ELSE "info")
          ELSE Detail("Death year", Dash, "missing")
      fallbackDeath ==
        IF IsSome(birth) THEN Some(Min(Val(birth) + ASSUMED_MAX_ARTIST_AGE, CurrentYear))
        ELSE None
      deathYear == IF IsSome(death) THEN death ELSE fallbackDeath
      era ==
        IF IsSome(y) /\ (hasBirth \/ hasDeath)
          THEN << IF IsSome(birth) /\ Val(y) < Val(birth)
                    THEN Detail("Era hint", << "Try an older artist" >>, "earlier")
                  ELSE IF IsSome(deathYear) /\ Val(y) > Val(deathYear)
                    THEN Detail("Era hint", << "Try a more recent artist" >>, "later")
                  ELSE Detail("Era hint", << "Within their lifetime" >>, "match") >>
          ELSE << >>
      guessPopularity == Field(guessedArtistData, "popularity_score")
      targetPopularity == Field(artistMeta, "popularity_score")
      fame ==
        IF IsSome(guessPopularity) /\ IsSome(targetPopularity)
          THEN LET delta == Val(guessPopularity) - Val(targetPopularity)
               IN IF Abs(delta) <= FameThreshold
                    THEN Detail("Fame hint", << "Similar fame" >>, "match")
                  ELSE IF delta > FameThreshold
                    THEN Detail("Fame hint", << "Artist of the day is less famous" >>,
                                "different")
                  ELSE Detail("Fame hint", << "Try a more famous artist" >>, "different")
          ELSE Detail("Fame hint", Dash, "missing")
  IN << birthDetail, deathDetail >> \o era
     \o << compareField("Movement", Field(artistMeta, "movement"), IsSome(artistMeta),
                        Field(guessedArtistData, "movement")),
           compareField("Country", Field(artistMeta, "country"), IsSome(artistMeta),
                        Field(guessedArtistData, "country")),
           fame >>
     \o (IF ~IsSome(guessedArtistData)
           THEN << Detail("Data", << "No reference yet for this artist." >>, "info") >>
           ELSE << >>)

\* --------------------------------------------------- the Home component

VARIABLES
  art,                    \* artId of the artwork shown, 0 while art is null
  viewingOffset,          \* 0 (today) or -1 (yesterday)
  loadingPreviousPuzzle,
  artRequest,             \* the /api/today request in flight: None or Some(r)
  loads,                  \* number of puzzle requests made so far
  artistHints,
  hintsRequest,           \* the artist loadHints is loading for: None or Some
  finished,
  success,
  gaveUp,
  guessError,             \* None or Some(message)
  attemptsHistory,
  submitLock,             \* submitLockRef.current
  pending,                \* the handleSubmit call awaiting getArtistProfile
  storage,                \* localStorage: artId -> None or Some(progress)
  calls,                  \* src/app/page.tsx: handleSubmit calls awaiting
                          \* getArtistProfile, in the order they were made
  userToken,              \* "" until the mount effect has set the token
  playSaved,
  playSavedStored,        \* localStorage: artId -> the playSaved field of
                          \* the progress stored for it
  inserts,                \* the inserts into plays awaiting their answer
  plays,                  \* the plays table: the records inserted, in order
  response,               \* the guess endpoint: the last request with its
                          \* response, None before the first
  todayResponse,          \* the puzzle endpoint: the last query with its
                          \* response, None before the first
  probe                   \* a function of the program under evaluation: its
                          \* arguments and, once it has returned, its value

vars == << art, viewingOffset, loadingPreviousPuzzle, artRequest, loads,
           artistHints, hintsRequest, finished, success, gaveUp,
           guessError, attemptsHistory, submitLock, pending, storage,
           calls, userToken, playSaved, playSavedStored, inserts, plays,
           response, todayResponse, probe >>

maxAttempts == 5
MaxLoads == 2

ArtIds == { 1, 2 }

Attempt(g, c, f) == [guess |-> g, correct |-> c, feedback |-> f]

\* the record the save effect writes under art-progress-<artId>
Progress(f, s, h) == [finished |-> f, success |-> s, attemptsHistory |-> h]

\* the save effect, run after every render that changed what it depends on
SaveProgress(st, id, f, s, h) ==
  IF id = 0 THEN st ELSE [st EXCEPT ![id] = Some(Progress(f, s, h))]

targetArtist == IF art = 0 THEN << >> ELSE ArtById(art).artist

\* artistSuggestions / allowedGuessSet of the current render
allowedGuessSet ==
  { normalizeString(n) :
      n \in ({ targetArtist } \cup { artistHints[i].name : i \in 1..Len(artistHints) })
            \ { << >> } }

usedGuessSet ==
  { normalizeString(attemptsHistory[i].guess) : i \in 1..Len(attemptsHistory) }

attemptsCount == Len(attemptsHistory)

\* ------------------------------------------------ the zoom of the image
\* Numbers are kept exact: a stage is counted in tenths of an attempt, the
\* reveal progress as its numerator over maxAttempts, and a zoom in
\* thousandths.

\* what the page passes to ZoomableImage
displayAttempts == IF finished THEN maxAttempts ELSE attemptsCount
revealProgress == Min(maxAttempts, attemptsCount + (IF finished THEN 1 ELSE 0))
showFullImage == finished
fit == IF showFullImage THEN "contain" ELSE "cover"

Clamp(v, lo, hi) == IF v < lo THEN lo ELSE IF v > hi THEN hi ELSE v

\* the largest r with r^5 <= v, for v below 51^5
FloorFifthRoot(v) ==
  CHOOSE r \in 0..50 : r*r*r*r*r <= v /\ v < (r+1)*(r+1)*(r+1)*(r+1)*(r+1)

\* Math.pow(num/den, 0.6) in fiftieths, rounded down; den is 50 (tenths of
\* an attempt out of five attempts) or 10.  The result is 0 only for num = 0
\* and 50 only for num = den.
Pow06(num, den) ==
  FloorFifthRoot((312500000 \div (den * den * den)) * num * num * num)

\* the scale ZoomableImage gives the image
ZoomableImage(attempts, maxAtt, reveal, fitMode) ==
  LET safeMaxAttempts == IF maxAtt < 1 THEN 1 ELSE maxAtt
      clampedAttempts == Clamp(attempts, 0, safeMaxAttempts)
      revealClamped == Clamp(reveal, 0, safeMaxAttempts)
      revealBoost == 6 * revealClamped
      stage == Min(10 * safeMaxAttempts, 10 * clampedAttempts + revealBoost)
      eased == Pow06(10 * safeMaxAttempts - stage, 10 * safeMaxAttempts)
      targetZoom == 1000 + eased * 76
  IN IF fitMode = "contain" THEN 1000 ELSE targetZoom

\* the scale the earlier ZoomableImage gives the image
ZoomableImageLegacy(attempts, maxAtt) ==
  LET safeMaxAttempts == IF maxAtt < 1 THEN 1 ELSE maxAtt
      clampedAttempts == Clamp(attempts, 0, safeMaxAttempts)
  IN 5000 - (4000 * clampedAttempts) \div safeMaxAttempts

\* the scale of the image on the screen
Zoom == ZoomableImage(displayAttempts, maxAttempts, revealProgress, fit)
ZoomLegacy == ZoomableImageLegacy(displayAttempts, maxAttempts)

\* a decision that accepts the full name only
IsCorrectFullNameOnly(guessNorm, artist) == guessNorm = normalizeString(artist)

\* the correctness decision of handleSubmit
IsCorrect(guessNorm, artist) ==
  LET correctArtist == normalizeString(artist)
      artistLastName == normalizeString(LastToken(artist))
  IN \/ guessNorm = correctArtist
     \/ (artistLastName # << >> /\ guessNorm = artistLastName)

\* the progress a returning player has in localStorage for yesterday's
\* puzzle: five wrong guesses, made with the whole catalogue as hints
RowOf(name) == CHOOSE r \in TableRows : r.name = name
LostAttempt(name) ==
  Attempt(name, FALSE,
          ClientFeedback(ArtById(2).year, Some(RowOf(ArtById(2).artist)),
                         Some(RowOf(name))))
YesterdayLost ==
  Progress(TRUE, FALSE,
           << LostAttempt(JoArp), LostAttempt(Bel), LostAttempt(Cox),
              LostAttempt(Ng), LostAttempt(Eve) >>)

RemoveAt(s, i) == [j \in 1..(Len(s) - 1) |-> IF j < i THEN s[j] ELSE s[j + 1]]

Token == "token"

\* the payload of persistPlay; attempts_data, the history itself, is left out
PlayPayload(id, h, sc, tok) ==
  [daily_id |-> id, attempts |-> Len(h), success |-> sc, user_token |-> tok]

\* the guard of the persistPlay effect
PersistsPlay(f, id, tok, saved, h) ==
  f /\ id # 0 /\ tok # "" /\ ~saved /\ h # << >>

\* the inserts awaited after the persistPlay effect of a render
InsertsAfter(ins, f, id, tok, saved, h, sc) ==
  IF PersistsPlay(f, id, tok, saved, h)
    THEN Append(ins, PlayPayload(id, h, sc, tok))
    ELSE ins

\* the persistPlay effect after a commit that leaves the artwork, the token
\* and playSaved as they are: it runs when finished, attemptsHistory or
\* success changed
persistPlayEffect ==
  /\ inserts' =
       IF << finished', attemptsHistory', success' >>
            # << finished, attemptsHistory, success >>
         THEN InsertsAfter(inserts, finished', art, userToken, playSaved,
                           attemptsHistory', success')
         ELSE inserts
  /\ UNCHANGED << userToken, playSaved, playSavedStored, plays >>

\* the page is mounted: the first /api/today request is in flight, and
\* localStorage is empty or holds yesterday's finished game
Init ==
  /\ art = 0
  /\ viewingOffset = 0
  /\ loadingPreviousPuzzle = FALSE
  /\ artRequest = Some([offset |-> 0, previous |-> FALSE])
  /\ loads = 1
  /\ artistHints = FALLBACK_ARTISTS
  /\ hintsRequest = None
  /\ finished = FALSE
  /\ success = FALSE
  /\ gaveUp = FALSE
  /\ guessError = None
  /\ attemptsHistory = << >>
  /\ submitLock = FALSE
  /\ pending = None
  /\ storage \in { [i \in ArtIds |-> None],
                   [i \in ArtIds |-> IF i = 2 THEN Some(YesterdayLost) ELSE None] }
  /\ calls = << >>
  /\ userToken = ""
  /\ playSaved = FALSE
  /\ playSavedStored = [i \in ArtIds |-> FALSE]
  /\ inserts = << >>
  /\ plays = << >>
  /\ response = None
  /\ todayResponse = None
  /\ probe = None

\* a reset that leaves finished and success as they were
CoreStateKept(stored) ==
  IF IsSome(stored) THEN Val(stored) ELSE Progress(finished, success, << >>)

\* the reset/restore effect: resetCoreState when nothing is stored for the
\* artId, else the stored progress
CoreStateFor(stored) ==
  IF IsSome(stored) THEN Val(stored) ELSE Progress(FALSE, FALSE, << >>)

\* requestArtFromApi resolves and setArt(payload) runs; when the artId changes
\* the effects keyed by it run in the same commit: the hints are cleared and
\* loadHints starts, the progress stored for the new artId is restored (or the
\* core state is reset when there is none), gaveUp is cleared, and the save
\* effect writes the resulting state under the new artId.  The effects of
\* the commit of setArt run with the session state of the render before the
\* restore: persistPlay sees the new artId with the old finished, success,
\* attemptsHistory and playSaved; it runs again after the restore
ArtArrives ==
  /\ IsSome(artRequest)
  /\ LET r == Val(artRequest)
         a == PuzzleAtOffset(r.offset)
         core == CoreStateFor(storage[a.id])
         f == core.finished
         sc == core.success
         h == core.attemptsHistory
     IN /\ art' = a.id
        /\ artRequest' = None
        /\ viewingOffset' = IF r.previous THEN r.offset ELSE viewingOffset
        /\ loadingPreviousPuzzle' = FALSE
        /\ IF a.id # art
             THEN /\ artistHints' = FALLBACK_ARTISTS
                  /\ hintsRequest' = Some(a.artist)
                  /\ finished' = f
                  /\ success' = sc
                  /\ attemptsHistory' = h
                  /\ gaveUp' = FALSE
                  /\ storage' = SaveProgress(storage, a.id, f, sc, h)
                  /\ LET saved == IsSome(storage[a.id]) /\ playSavedStored[a.id]
                         stale == InsertsAfter(inserts, finished, a.id, userToken,
                                               playSaved, attemptsHistory, success)
                     IN /\ playSaved' = saved
                        /\ playSavedStored' = [playSavedStored EXCEPT ![a.id] = saved]
                        /\ inserts' = InsertsAfter(stale, f, a.id, userToken, saved,
                                                   h, sc)
             ELSE UNCHANGED << artistHints, hintsRequest, finished, success,
                                attemptsHistory, gaveUp, storage, playSaved,
                                playSavedStored, inserts >>
  /\ UNCHANGED << loads, guessError, submitLock, pending >>
  /\ UNCHANGED << calls, userToken, plays, response, todayResponse, probe >>

\* the /api/today request fails: the first load leaves art null, a failed
\* previous-puzzle load is logged
ArtRequestFails ==
  /\ IsSome(artRequest)
  /\ artRequest' = None
  /\ loadingPreviousPuzzle' = FALSE
  /\ UNCHANGED << art, viewingOffset, loads, artistHints, hintsRequest, finished,
                  success, gaveUp, guessError, attemptsHistory, submitLock,
                  pending, storage >>
  /\ UNCHANGED << calls, response, todayResponse, probe >>
  /\ persistPlayEffect

\* the button is rendered only in the finished view
handleTryPreviousPuzzle ==
  /\ art # 0
  /\ finished
  /\ ~loadingPreviousPuzzle
  /\ loads < MaxLoads
  /\ loadingPreviousPuzzle' = TRUE
  /\ artRequest' = Some([offset |-> IF viewingOffset < 0 THEN 0 ELSE -1,
                         previous |-> TRUE])
  /\ loads' = loads + 1
  /\ UNCHANGED << art, viewingOffset, artistHints, hintsRequest, finished, success,
                  gaveUp, guessError, attemptsHistory, submitLock, pending,
                  storage >>
  /\ UNCHANGED << calls, response, todayResponse, probe >>
  /\ persistPlayEffect

\* loadHints resolves (it is cancelled once art.artist has changed)
HintsArrive ==
  /\ IsSome(hintsRequest)
  /\ \E h \in HintAnswers(Val(hintsRequest)) : artistHints' = h
  /\ hintsRequest' = None
  /\ UNCHANGED << art, viewingOffset, loadingPreviousPuzzle, artRequest, loads,
                  finished, success, gaveUp, guessError, attemptsHistory,
                  submitLock, pending, storage >>
  /\ UNCHANGED << calls, response, todayResponse, probe >>
  /\ persistPlayEffect

\* the budget test written with > for >=
FinishedAfterStrict(correct, nextAttemptCount, fin) ==
  IF correct THEN TRUE
  ELSE IF nextAttemptCount > maxAttempts THEN TRUE
  ELSE fin

\* if (correct) {setSuccess(true); setFinished(true)}
\* else if (nextAttemptCount >= maxAttempts) setFinished(true)
FinishedAfter(correct, nextAttemptCount, fin) ==
  IF correct THEN TRUE
  ELSE IF nextAttemptCount >= maxAttempts THEN TRUE
  ELSE fin

SuccessAfter(correct, suc) == IF correct THEN TRUE ELSE suc

\* the lock released only when the lookup answered a profile
RecordAttemptLockLeak(p, profile) ==
  LET guessedArtistData == IF IsSome(profile) THEN profile ELSE p.localGuessMeta
      feedback == IF p.correct THEN << >>
                  ELSE ClientFeedback(p.artYear, p.artistMeta, guessedArtistData)
      h == Append(attemptsHistory, Attempt(p.guess, p.correct, feedback))
      f == FinishedAfter(p.correct, p.attemptsCount + 1, finished)
      sc == SuccessAfter(p.correct, success)
  IN /\ attemptsHistory' = h
     /\ finished' = f
     /\ success' = sc
     /\ guessError' = None
     /\ submitLock' = ~IsSome(profile)
     /\ pending' = None
     /\ storage' = SaveProgress(storage, art, f, sc, h)

\* handleSubmit from the resolution of getArtistProfile on: the feedback is
\* built from what the call captured when it started, the attempt is appended
\* to the history as it is now, and the lock is released
RecordAttempt(p, profile) ==
  LET guessedArtistData == IF IsSome(profile) THEN profile ELSE p.localGuessMeta
      feedback == IF p.correct THEN << >>
                  ELSE ClientFeedback(p.artYear, p.artistMeta, guessedArtistData)
      h == Append(attemptsHistory, Attempt(p.guess, p.correct, feedback))
      f == FinishedAfter(p.correct, p.attemptsCount + 1, finished)
      sc == SuccessAfter(p.correct, success)
  IN /\ attemptsHistory' = h
     /\ finished' = f
     /\ success' = sc
     /\ guessError' = None
     /\ submitLock' = FALSE
     /\ pending' = None
     /\ storage' = SaveProgress(storage, art, f, sc, h)

\* the suggestion check left out
NotAllowedNever(raw) == FALSE

\* the checks of handleSubmit that reject a guess
IsEmptyGuess(raw) == Trim(raw) = << >>
NotAllowed(raw) == normalizeString(Trim(raw)) \notin allowedGuessSet
AlreadyUsed(raw) == normalizeString(Trim(raw)) \in usedGuessSet
LockHeld == submitLock

\* artistMeta of the current render
artistMeta == FindHint(artistHints, normalizeString(targetArtist))

\* what the call keeps from the render it was made in: the guess, the
\* correctness decision taken before the lookup, attemptsCount, the year of
\* the artwork, and what it will read from that render's artistHints
Closure(raw) ==
  [guess |-> Trim(raw),
   correct |-> IsCorrect(normalizeString(Trim(raw)), targetArtist),
   attemptsCount |-> attemptsCount,
   artId |-> art,
   artYear |-> ArtById(art).year,
   artistMeta |-> artistMeta,
   localGuessMeta |-> FindHint(artistHints, normalizeString(Trim(raw)))]

PickFromSuggestions == << "Pick an artist from the suggestions." >>
AlreadyTried == << "You already tried this artist." >>

\* the lock taken at submitLockRef.current = true
LockTaken == TRUE

handleSubmit(raw) ==
  /\ art # 0
  /\ ~finished
  /\ IF IsEmptyGuess(raw) THEN UNCHANGED vars
     ELSE /\ gaveUp' = FALSE
          /\ UNCHANGED << art, viewingOffset, loadingPreviousPuzzle, artRequest,
                          loads, artistHints, hintsRequest, calls, response,
                          todayResponse, probe >>
          /\ IF NotAllowed(raw)
               THEN /\ guessError' = Some(PickFromSuggestions)
                    /\ UNCHANGED << finished, success, attemptsHistory, submitLock,
                                    pending, storage >>
             ELSE IF AlreadyUsed(raw)
               THEN /\ guessError' = Some(AlreadyTried)
                    /\ UNCHANGED << finished, success, attemptsHistory, submitLock,
                                    pending, storage >>
             ELSE IF LockHeld
               THEN UNCHANGED << guessError, finished, success, attemptsHistory,
                                  submitLock, pending, storage >>
             ELSE IF ProfileNeedsRequest(Trim(raw))
               THEN /\ submitLock' = LockTaken
                    /\ pending' = Some(Closure(raw))
                    /\ UNCHANGED << guessError, finished, success, attemptsHistory,
                                    storage >>
               ELSE RecordAttempt(Closure(raw), None)
          /\ persistPlayEffect

\* typing in the input clears the message
handleGuessChange ==
  /\ art # 0
  /\ ~finished
  /\ IsSome(guessError)
  /\ guessError' = None
  /\ UNCHANGED << art, viewingOffset, loadingPreviousPuzzle, artRequest, loads,
                  artistHints, hintsRequest, finished, success, gaveUp,
                  attemptsHistory, submitLock, pending, storage >>
  /\ UNCHANGED << calls, response, todayResponse, probe >>
  /\ persistPlayEffect

\* getArtistProfile resolves for the call in flight
ProfileArrives ==
  /\ IsSome(pending)
  /\ \E profile \in ProfileAnswers(Val(pending).guess) :
       RecordAttempt(Val(pending), profile)
  /\ UNCHANGED << art, viewingOffset, loadingPreviousPuzzle, artRequest, loads,
                  artistHints, hintsRequest, gaveUp >>
  /\ UNCHANGED << calls, response, todayResponse, probe >>
  /\ persistPlayEffect

handleGiveUp ==
  /\ art # 0
  /\ ~finished
  /\ finished' = TRUE
  /\ success' = FALSE
  /\ gaveUp' = TRUE
  /\ guessError' = None
  /\ storage' = SaveProgress(storage, art, TRUE, FALSE, attemptsHistory)
  /\ UNCHANGED << art, viewingOffset, loadingPreviousPuzzle, artRequest, loads,
                  artistHints, hintsRequest, attemptsHistory, submitLock, pending >>
  /\ UNCHANGED << calls, response, todayResponse, probe >>
  /\ persistPlayEffect

\* what the player types or picks: on today's puzzle any name of the
\* catalogue, a name outside it and blank text; on yesterday's puzzle its
\* answer, another artist's name spelled with other case, accent and padding,
\* and blank text
BelTyped == << " ", "b", "E_acute", "L", " " >>
Blank == << " ", " " >>
GuessInputs ==
  IF viewingOffset = 0
    THEN { JoArp, Klee, Bel, Cox, Ng, Eve, Zed, << >> }
    ELSE { Klee, BelTyped, Blank }

Submit == \E raw \in GuessInputs : handleSubmit(raw)

Next ==
  \/ ArtArrives
  \/ ArtRequestFails
  \/ handleTryPreviousPuzzle
  \/ HintsArrive
  \/ Submit
  \/ handleGuessChange
  \/ ProfileArrives
  \/ handleGiveUp

Spec == Init /\ [][Next]_vars

\* ------------------------------------------------- the plays of a player

\* the mount effect, which runs before the first puzzle can arrive: the
\* token of localStorage, or a fresh one, is set, and the persistPlay effect
\* runs anew.  No action reads the token, playSaved or the inserts to decide
\* anything but the inserts, so the specifications that do not follow the
\* plays leave the token unset.
MountEffect ==
  /\ userToken = ""
  /\ art = 0
  /\ userToken' = Token
  /\ inserts' = InsertsAfter(inserts, finished, art, Token, playSaved,
                             attemptsHistory, success)
  /\ UNCHANGED << art, viewingOffset, loadingPreviousPuzzle, artRequest, loads,
                  artistHints, hintsRequest, finished, success, gaveUp,
                  guessError, attemptsHistory, submitLock, pending, storage,
                  calls, playSaved, playSavedStored, plays, response,
                  todayResponse, probe >>

\* supabase answers an insert without error: the record is in the table and
\* setPlaySaved(true) runs in the session shown now; the save effect writes
\* playSaved under the artId shown
InsertSucceeds(i) ==
  /\ plays' = Append(plays, inserts[i])
  /\ inserts' = RemoveAt(inserts, i)
  /\ playSaved' = TRUE
  /\ playSavedStored' =
       IF art = 0 THEN playSavedStored ELSE [playSavedStored EXCEPT ![art] = TRUE]
  /\ UNCHANGED << art, viewingOffset, loadingPreviousPuzzle, artRequest, loads,
                  artistHints, hintsRequest, finished, success, gaveUp,
                  guessError, attemptsHistory, submitLock, pending, storage,
                  calls, userToken, response, todayResponse, probe >>

\* the insert is answered with an error, or the request throws
InsertFails(i) ==
  /\ inserts' = RemoveAt(inserts, i)
  /\ UNCHANGED << art, viewingOffset, loadingPreviousPuzzle, artRequest, loads,
                  artistHints, hintsRequest, finished, success, gaveUp,
                  guessError, attemptsHistory, submitLock, pending, storage,
                  calls, userToken, playSaved, playSavedStored, plays, response,
                  todayResponse, probe >>

InsertAnswered ==
  \E i \in 1..Len(inserts) : InsertSucceeds(i) \/ InsertFails(i)

\* what the player types or picks while the plays are followed: the answer
\* and two wrong names
Guesses == \E raw \in { targetArtist, Bel, Cox } : handleSubmit(raw)

NextPlays ==
  \/ MountEffect
  \/ ArtArrives
  \/ HintsArrive
  \/ handleTryPreviousPuzzle
  \/ Guesses
  \/ ProfileArrives
  \/ handleGiveUp
  \/ InsertAnswered

\* a first visit
InitPlays == Init /\ storage = [i \in ArtIds |-> None]

SpecPlays == InitPlays /\ [][NextPlays]_vars

\* ------------------------- the Home component of src/app/page.tsx

\* the feedback details its handleSubmit builds
LegacyFeedback(correct, artYear, meta, guessedArtistData) ==
  LET birth == Field(guessedArtistData, "birth_year")
      death == Field(guessedArtistData, "death_year")
      hasBirth == IsSome(birth) /\ Val(birth) # 0
      hasDeath == IsSome(death) /\ Val(death) # 0
      y == ParseInt(artYear)
      birthDetail ==
        IF hasBirth
          THEN Detail("Birth year", ToDigits(Val(birth)),
                      IF hasDeath /\ IsSome(y) /\ Val(y) >= Val(birth)
                           /\ Val(y) <= Val(death)
                        THEN "match" ELSE "info")
          ELSE Detail("Birth year", Dash, "missing")
      deathDetail ==
        IF hasDeath
          THEN Detail("Death year", ToDigits(Val(death)),
                      IF IsSome(y) /\ Val(y) > Val(death) THEN "earlier" ELSE "info")
          ELSE Detail("Death year", Dash, "missing")
      era ==
        IF hasBirth /\ hasDeath
          THEN << IF IsSome(y) /\ Val(y) < Val(birth)
                    THEN Detail("Era hint", << "U+1F53A Try an older artist" >>, "earlier")
                  ELSE IF IsSome(y) /\ Val(y) > Val(death)
                    THEN Detail("Era hint", << "U+1F53B Try a more recent artist" >>,
                                "later")
                  ELSE Detail("Era hint", << "Within their lifetime" >>, "match") >>
          ELSE << >>
      guessPopularity == Field(guessedArtistData, "popularity_score")
      targetPopularity == Field(meta, "popularity_score")
      fame ==
        IF IsSome(guessPopularity) /\ IsSome(targetPopularity)
          THEN LET delta == Val(guessPopularity) - Val(targetPopularity)
               IN IF Abs(delta) <= FameThreshold
                    THEN Detail("Fame hint", << "Similar fame" >>, "match")
                  ELSE IF delta > FameThreshold
                    THEN Detail("Fame hint", << "Artist of the day is less famous" >>,
                                "different")
                  ELSE Detail("Fame hint", << "Try a more famous artist" >>, "different")
          ELSE Detail("Fame hint", Dash, "missing")
  IN IF correct THEN << Detail("Status", << "Exact match!" >>, "match") >>
     ELSE << birthDetail, deathDetail >> \o era
          \o << compareField("Movement", Field(meta, "movement"), IsSome(meta),
                             Field(guessedArtistData, "movement")),
                compareField("Country", Field(meta, "country"), IsSome(meta),
                             Field(guessedArtistData, "country")),
                fame >>
          \o (IF ~IsSome(guessedArtistData)
                THEN << Detail("Data", << "No reference yet for this artist." >>, "info") >>
                ELSE << >>)

MaxCalls == 2

\* handleSubmit of src/app/page.tsx from the resolution of getArtistProfile
\* on; rest is the list of the calls still awaiting theirs
RecordAttemptLegacy(p, profile, rest) ==
  LET guessedArtistData == IF IsSome(profile) THEN profile ELSE p.localGuessMeta
      feedback == LegacyFeedback(p.correct, p.artYear, p.artistMeta, guessedArtistData)
      h == Append(attemptsHistory, Attempt(p.guess, p.correct, feedback))
      f == FinishedAfter(p.correct, p.attemptsCount + 1, finished)
      sc == SuccessAfter(p.correct, success)
  IN /\ attemptsHistory' = h
     /\ finished' = f
     /\ success' = sc
     /\ calls' = rest
     /\ storage' = SaveProgress(storage, art, f, sc, h)

\* handleSubmit of src/app/page.tsx up to its await: it checks finished, art
\* and blank text only
handleSubmitLegacy(raw) ==
  /\ art # 0
  /\ ~finished
  /\ Len(calls) < MaxCalls
  /\ IF IsEmptyGuess(raw) THEN UNCHANGED vars
     ELSE /\ UNCHANGED << art, viewingOffset, loadingPreviousPuzzle, artRequest,
                          loads, artistHints, hintsRequest, gaveUp, guessError,
                          submitLock, pending, response, todayResponse, probe >>
          /\ IF ProfileNeedsRequest(Trim(raw))
               THEN /\ calls' = Append(calls, Closure(raw))
                    /\ UNCHANGED << finished, success, attemptsHistory, storage >>
               ELSE RecordAttemptLegacy(Closure(raw), None, calls)
          /\ persistPlayEffect

\* getArtistProfile resolves for the i-th call in flight
ProfileArrivesLegacy(i) ==
  /\ \E profile \in ProfileAnswers(calls[i].guess) :
       RecordAttemptLegacy(calls[i], profile, RemoveAt(calls, i))
  /\ UNCHANGED << art, viewingOffset, loadingPreviousPuzzle, artRequest, loads,
                  artistHints, hintsRequest, gaveUp, guessError, submitLock,
                  pending, response, todayResponse, probe >>
  /\ persistPlayEffect

\* the text field is free: any text can be submitted
LegacyGuessInputs == { JoArp, Bel, Blank }

SubmitLegacy == \E raw \in LegacyGuessInputs : handleSubmitLegacy(raw)

LookupResolvesLegacy == \E i \in 1..Len(calls) : ProfileArrivesLegacy(i)

NextLegacy ==
  \/ ArtArrives
  \/ ArtRequestFails
  \/ HintsArrive
  \/ SubmitLegacy
  \/ LookupResolvesLegacy

SpecLegacy == Init /\ [][NextLegacy]_vars

\* --------------------------------------- the guess endpoint (POST handler)

MAX_ATTEMPTS == 5

\* getTodayDateKey(): the UTC day of the request
TodayKey == << "2", "0", "2", "5", "-", "0", "6", "-", "1", "5" >>
YesterdayKey == << "2", "0", "2", "5", "-", "0", "6", "-", "1", "4" >>
TomorrowKey == << "2", "0", "2", "5", "-", "0", "6", "-", "1", "6" >>
MonetDay == << "2", "0", "2", "5", "-", "0", "6", "-", "1", "3" >>
GoghDay == << "2", "0", "2", "5", "-", "0", "6", "-", "1", "2" >>

\* ISO_DAY_REGEX: four digits, a dash, two digits, a dash, two digits
MatchesIsoDay(c) ==
  /\ Len(c) = 10
  /\ \A i \in { 1, 2, 3, 4, 6, 7, 9, 10 } : IsDigit(c[i])
  /\ c[5] = "-"
  /\ c[8] = "-"

DaysInMonth(y, m) ==
  IF m \in { 4, 6, 9, 11 } THEN 30
  ELSE IF m = 2
    THEN (IF (y % 4 = 0 /\ y % 100 # 0) \/ y % 400 = 0 THEN 29 ELSE 28)
  ELSE 31

\* the text parses as a day of the calendar and prints back as itself
IsCalendarDay(c) ==
  LET y == ParseDigits(SubSeq(c, 1, 4), 0)
      m == ParseDigits(SubSeq(c, 6, 7), 0)
      d == ParseDigits(SubSeq(c, 9, 10), 0)
  IN m \in 1..12 /\ d \in 1..DaysInMonth(y, m)

\* normalizeDayKey: None for null
normalizeDayKey(value) ==
  IF ~IsSome(value) \/ Val(value) = << >> THEN None
  ELSE LET t == Trim(Val(value))
           candidate == SubSeq(t, 1, IF Len(t) < 10 THEN Len(t) ELSE 10)
       IN IF ~MatchesIsoDay(candidate) THEN None
          ELSE IF ~IsCalendarDay(candidate) THEN None
          ELSE Some(candidate)

\* the order of the characters a day key can hold: + before - before the
\* digits
CharRank(c) ==
  IF c = "+" THEN -1
  ELSE IF c = "-" THEN 0
  ELSE IF IsDigit(c) THEN DigitValue(c) + 1
  ELSE 11

RECURSIVE StringLeq(_, _)
\* a <= b on strings
StringLeq(a, b) ==
  IF a = << >> THEN TRUE
  ELSE IF b = << >> THEN FALSE
  ELSE IF Head(a) = Head(b) THEN StringLeq(Tail(a), Tail(b))
  ELSE CharRank(Head(a)) < CharRank(Head(b))

\* a resolver that does not look at the clock
resolveAnyDate(value) == normalizeDayKey(value)

resolvePlayableDate(value) ==
  LET day == normalizeDayKey(value)
  IN IF ~IsSome(day) THEN None
     ELSE IF StringLeq(Val(day), TodayKey) THEN day ELSE None

\* the daily_art row of a date: None when the table has none
DailyArtByDate(day) ==
  IF day = TodayKey THEN Some(PuzzleAtOffset(0))
  ELSE IF day = YesterdayKey THEN Some(PuzzleAtOffset(-1))
  ELSE IF day = MonetDay THEN Some(DailyArt(3, Monet, Year1872))
  ELSE IF day = GoghDay THEN Some(DailyArt(4, Gogh, Year1889))
  ELSE None

\* normalizeString of the route: the client's, then trim
normalizeStringServer(s) == Trim(StripMarks(NFD(ToLowerCase(s))))

\* the guess as sent, not trimmed
normalizeGuessAsSent(value) == IF IsSome(value) THEN Val(value) ELSE << >>

\* normalizeGuess: '' for what is not a string
normalizeGuess(value) == IF IsSome(value) THEN Trim(Val(value)) ELSE << >>

\* a number of the request body is kept in halves, so that 7 stands for 3.5;
\* None is what is not a number, and NaN
Floor(halves) == halves \div 2
\* a count rounded up instead of down
parseAttemptsUsedCeil(value) ==
  IF ~IsSome(value) THEN 0
  ELSE IF (Val(value) + 1) \div 2 < 0 THEN 0 ELSE (Val(value) + 1) \div 2

parseAttemptsUsed(value) ==
  IF ~IsSome(value) THEN 0
  ELSE IF Floor(Val(value)) < 0 THEN 0 ELSE Floor(Val(value))

ArtistProfile(r) ==
  [movement |-> r.movement, country |-> r.country, birth_year |-> r.birth_year,
   death_year |-> r.death_year, popularity_score |-> r.popularity_score]

\* what fetchArtistProfile can answer: the single exact match, else the most
\* popular row containing the name, else null; null also when a query fails
fetchArtistProfile(name) ==
  IF name = << >> THEN { None }
  ELSE LET exact == { r \in TableRows : ILikeExact(r.name, name) }
           fuzzy == TopByPopularity({ r \in TableRows : ILikeContains(r.name, name) })
       IN { None } \cup
          (IF Cardinality(exact) = 1 THEN { Some(ArtistProfile(r)) : r \in exact }
           ELSE { Some(ArtistProfile(r)) : r \in fuzzy })

\* a comparison that labels every field Movement
compareFieldOneLabel(label, targetValue, guessValue) ==
  Detail("Movement", Dash, "missing")

\* a comparison that never answers info
compareFieldNoInfo(label, targetValue, guessValue) ==
  IF ~IsSome(guessValue) \/ Val(guessValue) = << >> THEN Detail(label, Dash, "missing")
  ELSE Detail(label, Val(guessValue),
              IF IsSome(targetValue)
                   /\ normalizeStringServer(Val(targetValue))
                        = normalizeStringServer(Val(guessValue))
                THEN "match" ELSE "different")

\* compareField of buildFeedback
compareFieldServer(label, targetValue, guessValue) ==
  IF ~IsSome(guessValue) \/ Val(guessValue) = << >> THEN Detail(label, Dash, "missing")
  ELSE IF ~IsSome(targetValue) \/ Val(targetValue) = << >>
    THEN Detail(label, Val(guessValue), "info")
  ELSE Detail(label, Val(guessValue),
              IF normalizeStringServer(Val(targetValue))
                   = normalizeStringServer(Val(guessValue))
                THEN "match" ELSE "different")

\* alive strictly between the two years
aliveStrictlyDuring(artYearNumber, guessedBirth, guessedDeath) ==
  /\ IsSome(guessedDeath)
  /\ IsSome(artYearNumber)
  /\ Val(artYearNumber) > Val(guessedBirth)
  /\ Val(artYearNumber) < Val(guessedDeath)

\* aliveDuringPainting of buildFeedback, for a known birth year
aliveDuringPainting(artYearNumber, guessedBirth, guessedDeath) ==
  /\ IsSome(guessedDeath)
  /\ IsSome(artYearNumber)
  /\ Val(artYearNumber) >= Val(guessedBirth)
  /\ Val(artYearNumber) <= Val(guessedDeath)

buildFeedback(guessedProfile, targetProfile, guessName, artYear) ==
  LET guessedBirth == Field(guessedProfile, "birth_year")
      guessedDeath == Field(guessedProfile, "death_year")
      artYearNumber == IF IsSome(artYear) THEN ParseInt(Val(artYear)) ELSE None
      birthDetail ==
        IF IsSome(guessedBirth)
          THEN Detail("Birth year", ToDigits(Val(guessedBirth)),
                      IF aliveDuringPainting(artYearNumber, guessedBirth, guessedDeath)
                        THEN "match" ELSE "info")
          ELSE Detail("Birth year", Dash, "missing")
      deathDetail ==
        IF IsSome(guessedDeath)
          THEN Detail("Death year", ToDigits(Val(guessedDeath)),
                      IF IsSome(artYearNumber) /\ Val(artYearNumber) > Val(guessedDeath)
                        THEN "earlier" ELSE "info")
          ELSE Detail("Death year", Dash, "missing")
      fallbackDeath ==
        IF IsSome(guessedBirth)
          THEN Some(Min(Val(guessedBirth) + ASSUMED_MAX_ARTIST_AGE, CurrentYear))
          ELSE None
      deathYear == IF IsSome(guessedDeath) THEN guessedDeath ELSE fallbackDeath
      era ==
        IF IsSome(artYearNumber) /\ (IsSome(guessedBirth) \/ IsSome(guessedDeath))
          THEN << IF IsSome(guessedBirth) /\ Val(artYearNumber) < Val(guessedBirth)
                    THEN Detail("Era hint", << "Try an older artist" >>, "earlier")
                  ELSE IF IsSome(deathYear) /\ Val(artYearNumber) > Val(deathYear)
                    THEN Detail("Era hint", << "Try a more recent artist" >>, "later")
                  ELSE Detail("Era hint", << "Within their lifetime" >>, "match") >>
          ELSE << >>
      targetPopularity == Field(targetProfile, "popularity_score")
      guessedPopularity == Field(guessedProfile, "popularity_score")
      fame ==
        IF IsSome(targetPopularity) /\ IsSome(guessedPopularity)
          THEN LET delta == Val(guessedPopularity) - Val(targetPopularity)
               IN IF Abs(delta) <= FameThreshold
                    THEN Detail("Fame hint", << "Similar fame" >>, "match")
                  ELSE IF delta > FameThreshold
                    THEN Detail("Fame hint", << "Artist of the day is less famous" >>,
                                "different")
                  ELSE Detail("Fame hint", << "Try a more famous artist" >>, "different")
          ELSE Detail("Fame hint", Dash, "missing")
  IN << birthDetail, deathDetail >> \o era
     \o << compareFieldServer("Movement", Field(targetProfile, "movement"),
                              Field(guessedProfile, "movement")),
           compareFieldServer("Country", Field(targetProfile, "country"),
                              Field(guessedProfile, "country")),
           fame >>
     \o (IF ~IsSome(guessedProfile)
           THEN << Detail("Data", << "No reference yet for \"" >> \o guessName
                                    \o << "\"." >>, "info") >>
           ELSE << >>)

\* a request body: valid is false for what is not a JSON object; date and
\* guess are None for what is not a string; giveUp is "true", "false",
\* "absent" or "text" (a non-empty string)
Body(v, d, g, a, u) ==
  [valid |-> v, date |-> d, guess |-> g, attemptsUsed |-> a, giveUp |-> u]

\* Boolean(body.giveUp)
Truthy(u) == u \in { "true", "text" }

ErrorResponse(code, message) == [status |-> code, error |-> message]

\* a response that reports the game open whatever was decided
GuessResponseOpen(correct, fin, suc, feedback, revealed) ==
  [status |-> 200, correct |-> correct, finished |-> FALSE, success |-> suc,
   feedback |-> feedback, revealedArtwork |-> revealed]

GuessResponse(correct, fin, suc, feedback, revealed) ==
  [status |-> 200, correct |-> correct, finished |-> fin, success |-> suc,
   feedback |-> feedback, revealedArtwork |-> revealed]

RevealPayload(artwork, target, targetProfile) ==
  [artist |-> target,
   year |-> artwork.year,
   artist_initial |-> << ToUpperChar(target[1]) >>,
   target_profile |-> targetProfile]

\* a give-up answer that leaves the game open
GiveUpResponseOpen(revealPayload) ==
  GuessResponse(FALSE, FALSE, FALSE, << >>, Some(revealPayload))

\* the answer to a request with giveUp set
GiveUpResponse(revealPayload) ==
  GuessResponse(FALSE, TRUE, FALSE, << >>, Some(revealPayload))

\* the answer to a guess, the target's profile and the guessed artist's given
EvaluateGuess(body, artwork, target, targetProfile, revealPayload) ==
  LET guess == normalizeGuess(body.guess)
      attemptsUsed == parseAttemptsUsed(body.attemptsUsed)
      guessNorm == normalizeStringServer(guess)
      targetNorm == normalizeStringServer(target)
      targetLastName == normalizeStringServer(LastToken(target))
      correct == \/ guessNorm = targetNorm
                 \/ (targetLastName # << >> /\ guessNorm = targetLastName)
      fin == correct \/ attemptsUsed + 1 >= MAX_ATTEMPTS
  IN IF guess = << >> THEN { ErrorResponse(400, "Guess is required") }
     ELSE IF correct
       THEN { GuessResponse(TRUE, TRUE, TRUE, << >>, Some(revealPayload)) }
     ELSE { GuessResponse(FALSE, fin, FALSE,
                          buildFeedback(guessedProfile, targetProfile, guess,
                                        Some(artwork.year)),
                          IF fin THEN Some(revealPayload) ELSE None) :
              guessedProfile \in fetchArtistProfile(guess) }

\* the responses POST can give to a body
PostResponses(body) ==
  IF ~body.valid THEN { ErrorResponse(400, "Invalid request body") }
  ELSE
    LET dateValue == IF IsSome(body.date) THEN body.date ELSE Some(TodayKey)
        playableDate == resolvePlayableDate(dateValue)
        found == IF IsSome(playableDate) THEN DailyArtByDate(Val(playableDate)) ELSE None
    IN IF ~IsSome(playableDate) THEN { ErrorResponse(404, "Puzzle not found") }
       ELSE IF ~IsSome(found) THEN { ErrorResponse(404, "Puzzle not found") }
       ELSE
         LET artwork == Val(found)
             target == Trim(artwork.artist)
         IN { ErrorResponse(404, "Puzzle not found") } \cup
            (IF target = << >>
               THEN { ErrorResponse(500, "Puzzle answer unavailable") }
             ELSE UNION {
               LET revealPayload == RevealPayload(artwork, target, targetProfile)
               IN IF Truthy(body.giveUp) THEN { GiveUpResponse(revealPayload) }
                  ELSE EvaluateGuess(body, artwork, target, targetProfile,
                                     revealPayload) :
               targetProfile \in fetchArtistProfile(target) })

ClientVars ==
  << art, viewingOffset, loadingPreviousPuzzle, artRequest, loads, artistHints,
     hintsRequest, finished, success, gaveUp, guessError, attemptsHistory,
     submitLock, pending, storage, calls, userToken, playSaved,
     playSavedStored, inserts, plays >>

\* one request handled by the route
POST(body) ==
  /\ \E r \in PostResponses(body) : response' = Some([body |-> body, result |-> r])
  /\ UNCHANGED << ClientVars, todayResponse, probe >>

\* requests with giveUp set: no guess, the answer, a wrong name, blank text
\* and a name of another puzzle; no count, a half count, and counts below,
\* at and over the budget; today's date, yesterday's and tomorrow's
GiveUpBodies ==
  { Body(TRUE, None, None, None, "true"),
    Body(TRUE, Some(TodayKey), Some(JoArp), Some(0), "true"),
    Body(TRUE, None, Some(Zed), Some(8), "text"),
    Body(TRUE, Some(YesterdayKey), Some(Blank), Some(10), "true"),
    Body(TRUE, None, Some(Bel), Some(7), "true"),
    Body(TRUE, Some(TomorrowKey), Some(Klee), Some(14), "true") }

\* the endpoint keeps nothing between requests: one request per behaviour
\* shows all it can answer
GiveUpRequest ==
  /\ ~IsSome(response)
  /\ \E body \in GiveUpBodies : POST(body)

\* one game on the puzzle of the day, and give-up requests to the endpoint
NextGiveUp ==
  \/ ArtArrives
  \/ ArtRequestFails
  \/ HintsArrive
  \/ Submit
  \/ handleGuessChange
  \/ ProfileArrives
  \/ handleGiveUp
  \/ GiveUpRequest

\* a first visit: nothing is stored yet
InitGiveUp == Init /\ storage = [i \in ArtIds |-> None]

SpecGiveUp == InitGiveUp /\ [][NextGiveUp]_vars

\* ---------------------------------- the puzzle endpoint (GET handler)

\* Number(text) for the texts a query can hold here: blank text is 0,
\* [+-]Infinity is infinite, signed decimal digits with an optional fraction
\* are finite, anything else is NaN (exponent and hexadecimal forms are not
\* among the queries). A finite number is its sign, the whole part of its
\* magnitude, and whether a fraction follows
NumberOf(kind, sign, whole, fraction) ==
  [kind |-> kind, sign |-> sign, whole |-> whole, fraction |-> fraction]
NaN == NumberOf("nan", 1, 0, FALSE)

RECURSIVE SkipDigits(_)
SkipDigits(s) == IF s # << >> /\ IsDigit(Head(s)) THEN SkipDigits(Tail(s)) ELSE s

RECURSIVE HasNonZeroDigit(_)
HasNonZeroDigit(s) ==
  s # << >> /\ (Head(s) # "0" \/ HasNonZeroDigit(Tail(s)))

Number(text) ==
  LET t == Trim(text)
      signed == t # << >> /\ Head(t) \in { "+", "-" }
      sign == IF t # << >> /\ Head(t) = "-" THEN -1 ELSE 1
      u == IF signed THEN Tail(t) ELSE t
      afterWhole == SkipDigits(u)
      wholeDigits == Len(u) - Len(afterWhole)
      dotted == afterWhole # << >> /\ Head(afterWhole) = "."
      fractionText == IF dotted THEN Tail(afterWhole) ELSE << >>
      rest == IF dotted THEN SkipDigits(fractionText) ELSE afterWhole
  IN IF t = << >> THEN NumberOf("finite", 1, 0, FALSE)
     ELSE IF u = << "I", "n", "f", "i", "n", "i", "t", "y" >>
       THEN NumberOf("infinite", sign, 0, FALSE)
     ELSE IF rest # << >> THEN NaN
     ELSE IF wholeDigits = 0 /\ Len(fractionText) = 0 THEN NaN
     ELSE NumberOf("finite", sign, ParseDigits(u, 0), HasNonZeroDigit(fractionText))

\* the day number of a civil date (days since 1970-01-01), for any day of
\* month: MakeDay of ECMAScript
DaysFromCivil(year, month, day) ==
  LET y == IF month <= 2 THEN year - 1 ELSE year
      era == y \div 400
      yoe == y - era * 400
      mp == IF month > 2 THEN month - 3 ELSE month + 9
      doy == (153 * mp + 2) \div 5 + day - 1
      doe == yoe * 365 + yoe \div 4 - yoe \div 100 + doy
  IN era * 146097 + doe - 719468

\* the civil date of a day number
CivilFromDays(days) ==
  LET z == days + 719468
      era == z \div 146097
      doe == z - era * 146097
      yoe == (doe - doe \div 1460 + doe \div 36524 - doe \div 146096) \div 365
      doy == doe - (365 * yoe + yoe \div 4 - yoe \div 100)
      mp == (5 * doy + 2) \div 153
      d == doy - (153 * mp + 2) \div 5 + 1
      m == IF mp < 10 THEN mp + 3 ELSE mp - 9
  IN [year |-> yoe + era * 400 + (IF m <= 2 THEN 1 ELSE 0), month |-> m, day |-> d]

\* the time values a Date can hold: 100,000,000 days either side of the epoch
MaxDateDays == 100000000

RECURSIVE PadDigits(_, _)
PadDigits(n, width) ==
  IF width = 0 THEN << >>
  ELSE PadDigits(n \div 10, width - 1) \o << DigitChars[(n % 10) + 1] >>

\* Date.prototype.toISOString().slice(0, 10): years outside 0..9999 print
\* with a sign and six digits
IsoDay(date) ==
  IF date.year \in 0..9999
    THEN PadDigits(date.year, 4) \o << "-" >> \o PadDigits(date.month, 2)
         \o << "-" >> \o PadDigits(date.day, 2)
  ELSE SubSeq(<< IF date.year < 0 THEN "-" ELSE "+" >>
              \o PadDigits(Abs(date.year), 6) \o << "-" >> \o PadDigits(date.month, 2)
              \o << "-" >> \o PadDigits(date.day, 2), 1, 10)

\* copy.setUTCDate(copy.getUTCDate() + offset); copy.toISOString().slice(0, 10)
\* for the copy of today: the sum is truncated toward zero; None when the
\* copy has become an invalid date, for which toISOString throws RangeError
ShiftedDay(todayStr, offset) ==
  LET year == ParseDigits(SubSeq(todayStr, 1, 4), 0)
      month == ParseDigits(SubSeq(todayStr, 6, 7), 0)
      day == ParseDigits(SubSeq(todayStr, 9, 10), 0)
      sum == day + offset.sign * offset.whole
      date == IF ~offset.fraction THEN sum
              ELSE IF offset.sign > 0 THEN (IF sum >= 0 THEN sum ELSE sum + 1)
              ELSE (IF sum > 0 THEN sum - 1 ELSE sum)
      days == DaysFromCivil(year, month, 1) + date - 1
  IN IF offset.kind = "infinite" THEN None
     ELSE IF days > MaxDateDays \/ days < -MaxDateDays THEN None
     ELSE Some(IsoDay(CivilFromDays(days)))

Query(d, o) == [date |-> d, offset |-> o]

PuzzlePayload(row, day, artistName, targetProfile) ==
  [status |-> 200, id |-> row.id, date |-> day, year |-> row.year,
   artist_initial |-> IF artistName = << >> THEN None
                      ELSE Some(<< ToUpperChar(artistName[1]) >>),
   target_profile |-> targetProfile]

\* an exception nothing catches: the framework answers 500
Uncaught(message) == [status |-> 500, uncaught |-> message]

\* .ilike('name', artistName).maybeSingle(): the row when exactly one
\* matches, else null; null also when the query fails
TargetProfileOf(artistName) ==
  LET exact == { r \in TableRows : ILikeExact(r.name, artistName) }
  IN { None } \cup
     (IF Cardinality(exact) = 1 THEN { Some(ArtistProfile(r)) : r \in exact } ELSE { })

\* the responses GET can give to a query
GetResponses(query) ==
  LET todayStr == TodayKey
      offsetGiven == IsSome(query.offset) /\ Val(query.offset) # << >>
      offset == IF offsetGiven THEN Number(Val(query.offset)) ELSE NaN
      shifted == IF offset.kind = "nan" THEN Some(todayStr)
                 ELSE ShiftedDay(todayStr, offset)
      dateGiven == IsSome(query.date) /\ Val(query.date) # << >>
      playableDate == resolvePlayableDate(query.date)
      targetStr == IF dateGiven THEN Val(playableDate) ELSE Val(shifted)
  IN IF ~IsSome(shifted) THEN { Uncaught("RangeError: Invalid time value") }
     ELSE IF dateGiven /\ ~IsSome(playableDate) THEN { ErrorResponse(404, "Not found") }
     ELSE IF ~StringLeq(targetStr, todayStr) THEN { ErrorResponse(404, "Not found") }
     ELSE { ErrorResponse(404, "PGRST116"), ErrorResponse(500, "store error") }
          \cup
          (IF ~IsSome(DailyArtByDate(targetStr)) THEN { ErrorResponse(404, "Not found") }
           ELSE LET row == Val(DailyArtByDate(targetStr))
                    artistName == Trim(row.artist)
                IN { PuzzlePayload(row, targetStr, artistName, targetProfile) :
                       targetProfile \in IF artistName = << >> THEN { None }
                                         ELSE TargetProfileOf(artistName) })

\* one request handled by the route
GET(query) ==
  /\ \E r \in GetResponses(query) : todayResponse' = Some([query |-> query, result |-> r])
  /\ UNCHANGED << ClientVars, response, probe >>

OffsetTexts ==
  { << >>, << "0" >>, << "-", "1" >>, << "1" >>, << "-", "2" >>, << "-", "3" >>,
    << "-", "9" >>, << "3", "0" >>, << "+", "1" >>, << " ", "-", "1", " " >>,
    << "1", ".", "5" >>, << "-", "1", ".", "5" >>, << "0", ".", "5" >>,
    << "-", "0", ".", "5" >>, << "-", "1", ".", "0" >>, << "n", "o" >>,
    << "-", "1", "d" >>, << "-" >>, << " " >>,
    << "2", "9", "0", "0", "0", "0", "0" >>,
    << "3", "0", "0", "0", "0", "0", "0" >>,
    << "-", "8", "0", "0", "0", "0", "0" >>,
    << "9", "9", "9", "9", "9", "9", "9", "9" >>,
    << "1", "0", "0", "0", "0", "0", "0", "0", "0", "0" >>,
    << "-", "1", "0", "0", "0", "0", "0", "0", "0", "0", "0" >>,
    << "I", "n", "f", "i", "n", "i", "t", "y" >>,
    << "-", "I", "n", "f", "i", "n", "i", "t", "y" >> }

TodayQueries ==
  { Query(d, o) :
      d \in OptionalOf({ << >>, TodayKey, YesterdayKey, TomorrowKey, MonetDay,
                         << "2", "0", "2", "4", "-", "0", "2", "-", "3", "0" >>,
                         << "2", "0", "2", "6", "-", "0", "1", "-", "0", "1" >>,
                         << "9", "9", "9", "9", "-", "1", "2", "-", "3", "1" >>,
                         << "0", "0", "0", "0", "-", "0", "1", "-", "0", "1" >>,
                         << "t", "o", "d", "a", "y" >>,
                         << " " >> \o YesterdayKey,
                         TomorrowKey \o << "T", "0", "0", ":", "0", "0", "Z" >> }),
      o \in OptionalOf(OffsetTexts) }

\* ------------------------------ the endpoints and the client's judgement

MonetSurname == << "M", "o", "n", "e", "t" >>
MonetLower == << "m", "o", "n", "e", "t" >>
MonetUpper == << "M", "O", "N", "E", "T" >>
Claude == << "C", "l", "a", "u", "d", "e" >>
VanGogh == << "v", "a", "n", " ", "g", "o", "g", "h" >>
GoghSurname == << "g", "o", "g", "h" >>
EveTyped == << " ", "E", "v", "e" >>

\* what a player can send as a guess: the names of the puzzles with their
\* surnames in several letter cases, first names, names of the catalogue with
\* and without a profile, padded text, blank text, and no text at all
GuessTexts ==
  { Some(t) : t \in { Monet, MonetSurname, MonetLower, MonetUpper, Claude,
                      Gogh, VanGogh, GoghSurname, JoArp, Klee, Bel, BelTyped,
                      Cox, Ng, EveTyped, Zed, Blank } } \cup { None }

NotADay == << "t", "o", "d", "a", "y" >>
EmptyDay == << "2", "0", "2", "4", "-", "1", "2", "-", "3", "1" >>

\* requests without giveUp: no date (today), a past day with a puzzle,
\* tomorrow, text that is no date and a past day without a puzzle; no count,
\* a negative count, whole and half counts below the budget, the last
\* attempt and a half over it; a body that is not an object, and the
\* requests with giveUp set
GuessBodies ==
  { Body(TRUE, d, g, u, "absent") :
      d \in { None, Some(YesterdayKey), Some(MonetDay), Some(GoghDay),
              Some(TomorrowKey), Some(NotADay), Some(EmptyDay) },
      g \in GuessTexts,
      u \in { None, Some(-3), Some(0), Some(2), Some(3), Some(7), Some(8),
              Some(9) } }
  \cup { Body(FALSE, None, None, None, "absent"),
         Body(TRUE, Some(GoghDay), Some(Gogh), Some(0), "false") }
  \cup GiveUpBodies

\* the endpoints keep nothing between requests and the judgement reads
\* nothing but its arguments: one call per behaviour shows all they answer
NothingAsked == ~IsSome(response) /\ ~IsSome(todayResponse) /\ ~IsSome(probe)

GuessRequest ==
  /\ NothingAsked
  /\ \E body \in GuessBodies : POST(body)

\* the judgement handleSubmit makes of the text in the guess box against
\* the artist of the puzzle on screen
JudgeGuess ==
  /\ NothingAsked
  /\ \E raw \in GuessTexts \ { None }, artist \in { Monet, Gogh, JoArp, Klee } :
       probe' = Some([op |-> "correct", raw |-> Val(raw), artist |-> artist,
                      out |-> IsCorrect(normalizeString(Trim(Val(raw))), artist)])
  /\ UNCHANGED << ClientVars, response, todayResponse >>

\* a page that answers not-found to a date it cannot play
PageNotFound(dateParam) ==
  LET date == IF IsSome(dateParam) THEN Trim(Val(dateParam)) ELSE << >>
  IN IF date = << >> THEN [render |-> "Home"]
     ELSE IF IsSome(resolvePlayableDate(Some(date)))
       THEN [redirect |-> << "/", "p", "u", "z", "z", "l", "e", "/" >>
                          \o Val(resolvePlayableDate(Some(date)))]
     ELSE [notFound |-> TRUE]

\* the Page component for the date of the query string (normalizeDateParam
\* trims it; no parameter is ''): the home page is rendered, or the request
\* is redirected to the puzzle of the day asked for, or to the home page
Page(dateParam) ==
  LET date == IF IsSome(dateParam) THEN Trim(Val(dateParam)) ELSE << >>
  IN IF date = << >> THEN [render |-> "Home"]
     ELSE IF IsSome(resolvePlayableDate(Some(date)))
       THEN [redirect |-> << "/", "p", "u", "z", "z", "l", "e", "/" >>
                          \o Val(resolvePlayableDate(Some(date)))]
     ELSE [redirect |-> << "/" >>]

PageDates ==
  OptionalOf({ << >>, << " " >>, TodayKey, YesterdayKey, TomorrowKey, NotADay,
               EmptyDay, << " " >> \o YesterdayKey,
               << "2", "0", "2", "4", "-", "0", "2", "-", "3", "0" >> })

PageRequest ==
  /\ NothingAsked
  /\ \E dateParam \in PageDates :
       probe' = Some([op |-> "Page", date |-> dateParam, out |-> Page(dateParam)])
  /\ UNCHANGED << ClientVars, response, todayResponse >>

TodayRequest ==
  /\ NothingAsked
  /\ \E query \in TodayQueries : GET(query)

NextApi ==
  \/ GuessRequest
  \/ JudgeGuess
  \/ TodayRequest
  \/ PageRequest

SpecApi == InitGiveUp /\ [][NextApi]_vars

\* ------------------------------------ the feedback and date functions

Year1500 == << "1", "5", "0", "0" >>
Year2030 == << "2", "0", "3", "0" >>
Year1600 == << "1", "6", "0", "0" >>
Year1700 == << "1", "7", "0", "0" >>

\* profiles of a guessed artist: every combination of an unknown, early, late
\* and recent birth year, an unknown, early and late death year and a
\* popularity score unknown or at, within, at the edge of and beyond the fame
\* threshold around 50, with movement and country unknown, empty, in another
\* letter case, equal to and different from the target's
GuessedProfiles ==
  { [movement |-> mc[1], country |-> mc[2], birth_year |-> b, death_year |-> d,
     popularity_score |-> ps] :
      mc \in { << None, None >>, << Some(Dada), Some(Bern) >>,
               << Some(DadaUpper), None >>, << Some(Cobra), Some(Gand) >>,
               << Some(<< >>), Some(Bern) >> },
      b \in { None, Some(1400), Some(1600), Some(1950) },
      d \in { None, Some(1450), Some(1700) },
      ps \in { None, Some(50), Some(57), Some(58), Some(43), Some(42) } }

TargetProfiles ==
  { [movement |-> None, country |-> None, birth_year |-> None,
     death_year |-> None, popularity_score |-> None],
    [movement |-> Some(Dada), country |-> Some(Bern), birth_year |-> Some(1886),
     death_year |-> Some(1966), popularity_score |-> Some(50)],
    [movement |-> None, country |-> Some(Bern), birth_year |-> Some(1886),
     death_year |-> None, popularity_score |-> Some(50)] }

\* the year of an artwork: a year before, within, at either end of and after
\* the lifetimes above, a year after the current one, and text that is not a
\* number
ArtYears == { Year1500, Year1600, Year1700, Year1920, Year2030, YearCirca }

BuildFeedbackInputs ==
  { [op |-> "buildFeedback",
     in |-> [guessedProfile |-> g, targetProfile |-> t, guessName |-> Bel,
             artYear |-> y],
     out |-> None] :
      g \in OptionalOf(GuessedProfiles), t \in OptionalOf(TargetProfiles),
      y \in OptionalOf(ArtYears) }

\* the same profiles as rows of the hints and of the lookup
ClientFeedbackInputs ==
  { [op |-> "clientFeedback",
     in |-> [guessedArtistData |-> g, artistMeta |-> t, artYear |-> y],
     out |-> None] :
      g \in OptionalOf(GuessedProfiles), t \in OptionalOf(TargetProfiles),
      y \in ArtYears }

\* what a caller can pass as a date: nothing, empty text, today, days before
\* and after it, days no calendar has, text of another shape, a timestamp
\* that starts with a day, and days with spaces around them
DateTexts ==
  { << >>, TodayKey, YesterdayKey, TomorrowKey, MonetDay,
    << "2", "0", "2", "4", "-", "0", "2", "-", "3", "0" >>,
    << "2", "0", "2", "4", "-", "0", "2", "-", "2", "9" >>,
    << "2", "0", "2", "5", "-", "0", "2", "-", "2", "9" >>,
    << "2", "0", "2", "5", "-", "0", "4", "-", "3", "1" >>,
    << "2", "0", "2", "5", "-", "0", "5", "-", "3", "1" >>,
    << "2", "0", "2", "5", "-", "0", "5", "-", "3", "2" >>,
    << "2", "0", "2", "5", "-", "0", "6", "-", "0", "0" >>,
    << "2", "0", "2", "5", "-", "0", "0", "-", "1", "0" >>,
    << "2", "0", "2", "5", "-", "1", "3", "-", "0", "1" >>,
    << "2", "0", "2", "5", "-", "0", "7", "-", "0", "1" >>,
    << "2", "0", "2", "5", "-", "1", "2", "-", "0", "1" >>,
    << "2", "0", "2", "6", "-", "0", "1", "-", "0", "1" >>,
    << "2", "0", "2", "4", "-", "1", "2", "-", "3", "1" >>,
    << "1", "9", "0", "0", "-", "0", "2", "-", "2", "9" >>,
    << "2", "0", "0", "0", "-", "0", "2", "-", "2", "9" >>,
    << "9", "9", "9", "9", "-", "1", "2", "-", "3", "1" >>,
    << "0", "0", "0", "0", "-", "0", "1", "-", "0", "1" >>,
    << "2", "0", "2", "5", "-", "6", "-", "1", "4" >>,
    << "2", "0", "2", "5", "-", "0", "6", "-", "1" >>,
    << "2", "0", "2", "5", "/", "0", "6", "/", "1", "4" >>,
    << "2", "0", "2", "5", "0", "6", "1", "4" >>,
    << "1", "4", "-", "0", "6", "-", "2", "0", "2", "5" >>,
    << "t", "o", "d", "a", "y" >>,
    << "2", "0", "2", "5", "-", "0", "6", "-", "1", "x" >>,
    << " " >>,
    YesterdayKey \o << "T", "1", "0", ":", "0", "0", "Z" >>,
    TodayKey \o << "T", "2", "3", ":", "5", "9", "Z" >>,
    TomorrowKey \o << "T", "0", "0", ":", "0", "0", "Z" >>,
    YesterdayKey \o << "1" >>,
    YesterdayKey \o << " " >>,
    << " " >> \o YesterdayKey,
    << " ", " " >> \o TodayKey \o << " " >>,
    << " " >> \o TomorrowKey }

DateInputs ==
  { [op |-> "resolvePlayableDate", in |-> v, out |-> None] :
      v \in OptionalOf(DateTexts) }

ProbeInputs == BuildFeedbackInputs \cup ClientFeedbackInputs \cup DateInputs

ProbeReady(op) == IsSome(probe) /\ Val(probe).op = op /\ ~IsSome(Val(probe).out)

ApplyBuildFeedback ==
  /\ ProbeReady("buildFeedback")
  /\ LET in == Val(probe).in
     IN probe' = Some([Val(probe) EXCEPT
                         !.out = Some(buildFeedback(in.guessedProfile, in.targetProfile,
                                                    in.guessName, in.artYear))])
  /\ UNCHANGED << ClientVars, response, todayResponse >>

\* the feedback handleSubmit builds for an incorrect guess
ApplyClientFeedback ==
  /\ ProbeReady("clientFeedback")
  /\ LET in == Val(probe).in
     IN probe' = Some([Val(probe) EXCEPT
                         !.out = Some(ClientFeedback(in.artYear, in.artistMeta,
                                                     in.guessedArtistData))])
  /\ UNCHANGED << ClientVars, response, todayResponse >>

ApplyResolvePlayableDate ==
  /\ ProbeReady("resolvePlayableDate")
  /\ probe' = Some([Val(probe) EXCEPT !.out = Some(resolvePlayableDate(Val(probe).in))])
  /\ UNCHANGED << ClientVars, response, todayResponse >>

\* the arguments of one call are given; nothing else is going on
InitPure ==
  /\ art = 0
  /\ viewingOffset = 0
  /\ loadingPreviousPuzzle = FALSE
  /\ artRequest = Some([offset |-> 0, previous |-> FALSE])
  /\ loads = 1
  /\ artistHints = FALLBACK_ARTISTS
  /\ hintsRequest = None
  /\ finished = FALSE
  /\ success = FALSE
  /\ gaveUp = FALSE
  /\ guessError = None
  /\ attemptsHistory = << >>
  /\ submitLock = FALSE
  /\ pending = None
  /\ storage = [i \in ArtIds |-> None]
  /\ calls = << >>
  /\ userToken = ""
  /\ playSaved = FALSE
  /\ playSavedStored = [i \in ArtIds |-> FALSE]
  /\ inserts = << >>
  /\ plays = << >>
  /\ response = None
  /\ todayResponse = None
  /\ probe \in { Some(p) : p \in ProbeInputs }

NextPure ==
  \/ ApplyBuildFeedback
  \/ ApplyClientFeedback
  \/ ApplyResolvePlayableDate

SpecPure == InitPure /\ [][NextPure]_vars

\* ------------------------------------------------------------ properties

NoCorrectAttempt == \A i \in 1..Len(attemptsHistory) : ~attemptsHistory[i].correct

\* C1: in every state of a session, finished is true exactly when success is
\* true, or maxAttempts attempts are recorded, or the player gave up.
C1_FinishedIff ==
  art # 0 => (finished <=> (success \/ attemptsCount = maxAttempts \/ gaveUp))

\* C2: once the session is finished, no step appends an attempt or changes
\* the number of attempts while the same puzzle stays loaded.
C2_NoAttemptAfterFinished ==
  [][(finished /\ art' = art) => attemptsHistory' = attemptsHistory]_vars

\* the step records an incorrect guess that was submitted on the puzzle now
\* shown, in a session that is not finished and holds no correct guess
RecordsOwnIncorrectGuess ==
  /\ art' = art
  /\ ~finished
  /\ NoCorrectAttempt
  /\ IsSome(pending) => Val(pending).artId = art
  /\ Len(attemptsHistory') = Len(attemptsHistory) + 1
  /\ ~attemptsHistory'[Len(attemptsHistory')].correct

\* C3: a step that records an incorrect guess, with no correct guess and no
\* give-up in the session, leaves finished false while fewer than maxAttempts
\* attempts are recorded and makes it true when it records the 5th.
C3_FinishedExactlyAtBudget ==
  [][RecordsOwnIncorrectGuess
       => (finished' <=> Len(attemptsHistory') = maxAttempts)]_vars

\* five incorrect guesses made on today's puzzle ended the session
C3_Witness ==
  /\ art = 1
  /\ finished /\ ~success /\ ~gaveUp
  /\ attemptsCount = maxAttempts
  /\ NoCorrectAttempt
  /\ ~IsSome(storage[2])

\* C4: the number of recorded attempts is always between 0 and maxAttempts.
C4_AttemptsWithinBudget == attemptsCount \in 0..maxAttempts

\* C5 for the component of page.client.tsx: a submission made while a call
\* awaits its lookup records no attempt, starts no second lookup and leaves
\* the call in flight as it is.
C5_LockedSubmitRecordsNothing ==
  [][\A raw \in GuessInputs :
       (IsSome(pending) /\ handleSubmit(raw))
         => UNCHANGED << attemptsHistory, pending, finished, success >>]_vars

\* C5 for the component of src/app/page.tsx: a call whose lookup resolves
\* records its attempt only if no attempt was recorded since it was made,
\* so that two overlapping submissions never record two attempts.
C5_OverlapRecordsOnce ==
  [][\A i \in 1..Len(calls) :
       (ProfileArrivesLegacy(i) /\ Len(attemptsHistory') > Len(attemptsHistory))
         => calls[i].attemptsCount = attemptsCount]_vars

\* the lookup of a guess submitted on another puzzle than the one now shown
\* resolves
StaleProfileArrives ==
  /\ IsSome(pending)
  /\ Val(pending).artId # art
  /\ pending' = None

\* C6: the result of a lookup started on a puzzle that is no longer the one
\* loaded changes neither the attempt history nor finished nor success.
C6_StaleResultDiscarded ==
  [][StaleProfileArrives
       => UNCHANGED << attemptsHistory, finished, success >>]_vars

\* C7: no two entries of the attempt history have equal normalized guesses.
C7_NoDuplicateGuess ==
  \A i, j \in 1..Len(attemptsHistory) :
    i < j => normalizeString(attemptsHistory[i].guess)
               # normalizeString(attemptsHistory[j].guess)

\* the text is blank, is not a suggestion, or was already tried
InvalidGuess(raw, allowed, used) ==
  LET g == normalizeString(Trim(raw))
  IN \/ Trim(raw) = << >>
     \/ g \notin allowed
     \/ g \in used

\* C8: a submission of a guess that fails validation leaves the attempt
\* history, finished and success unchanged, starts no lookup and does not
\* take the lock.
C8_RejectedGuessChangesNothing ==
  [][LET allowed == allowedGuessSet
         used == usedGuessSet
     IN (art # 0 /\ ~finished) =>
          \A raw \in GuessInputs :
            (InvalidGuess(raw, allowed, used) /\ handleSubmit(raw))
              => UNCHANGED << attemptsHistory, finished, success, pending,
                              submitLock, storage >>]_vars

\* a repeated guess was refused while two attempts were recorded
C8_Witness ==
  /\ guessError = Some(AlreadyTried)
  /\ attemptsCount = 2
  /\ ~finished /\ ~submitLock /\ ~IsSome(pending)

\* the puzzle a guess request is judged against
AskedPuzzle ==
  Val(DailyArtByDate(Val(resolvePlayableDate(
    IF IsSome(Val(response).body.date) THEN Val(response).body.date
    ELSE Some(TodayKey)))))

\* a guess request that was judged (answered with a verdict, not an error)
GuessJudged ==
  /\ IsSome(response)
  /\ Val(response).result.status = 200
  /\ ~Truthy(Val(response).body.giveUp)

\* lower case, decomposed, marks removed, trimmed
Normalized(s) == Trim(StripMarks(NFD(ToLowerCase(s))))

NameOrSurname(guess, target) ==
  \/ Normalized(guess) = Normalized(target)
  \/ Normalized(guess) = Normalized(LastToken(target))

GuessJudgedOn(day, text) ==
  /\ GuessJudged
  /\ Val(response).body.date = Some(day)
  /\ Val(response).body.guess = Some(text)

ClientJudged(artist, text) ==
  /\ IsSome(probe)
  /\ Val(probe).op = "correct"
  /\ Val(probe).artist = artist
  /\ Val(probe).raw = text

\* C12: a guess is judged correct exactly when its normalized text equals the
\* normalized full name of the target or the normalized last token of that
\* name, by the endpoint and by the client alike; against 'Claude Monet' the
\* guesses 'monet', 'Monet', 'MONET' and 'Claude Monet' are correct and
\* 'Claude' is not
C12_CorrectIffNameOrSurname ==
  /\ GuessJudged =>
       (Val(response).result.correct
          <=> NameOrSurname(Val(Val(response).body.guess), AskedPuzzle.artist))
  /\ (IsSome(probe) /\ Val(probe).op = "correct") =>
       (Val(probe).out <=> NameOrSurname(Val(probe).raw, Val(probe).artist))
  /\ \A t \in { MonetLower, MonetSurname, MonetUpper, Monet } :
       /\ GuessJudgedOn(MonetDay, t) => Val(response).result.correct
       /\ ClientJudged(Monet, t) => Val(probe).out
  /\ GuessJudgedOn(MonetDay, Claude) => ~Val(response).result.correct
  /\ ClientJudged(Monet, Claude) => ~Val(probe).out

C12_Witness == ClientJudged(Monet, MonetUpper) /\ Val(probe).out

\* the second request of a game on the puzzle of 'Vincent van Gogh': one
\* attempt used
SecondGuessOnGogh(text) ==
  /\ GuessJudgedOn(GoghDay, text)
  /\ Val(response).body.attemptsUsed = Some(2)

FirstGuessMonetOnGogh ==
  (GuessJudgedOn(GoghDay, Monet) /\ Val(response).body.attemptsUsed = Some(0))
    => /\ ~Val(response).result.correct
       /\ ~Val(response).result.finished
       /\ ~Val(response).result.success
       /\ Val(response).result.feedback # << >>

WinsTheGame ==
  /\ Val(response).result.correct
  /\ Val(response).result.finished
  /\ Val(response).result.success
  /\ Val(response).result.feedback = << >>

\* C13 as stated: with target 'Vincent van Gogh' and five attempts, a first
\* guess 'Claude Monet' is incorrect and leaves the game open, and a second
\* guess 'van gogh' is judged correct and ends the game as a success with
\* empty feedback
C13_VanGoghWins ==
  /\ FirstGuessMonetOnGogh
  /\ SecondGuessOnGogh(VanGogh) => WinsTheGame

\* C13: with target 'Vincent van Gogh' and five attempts, a first guess
\* 'Claude Monet' is incorrect and leaves the game open; a second guess
\* 'van gogh' is neither the full name nor its last token 'Gogh', so it is
\* judged incorrect with feedback and the game stays open with two attempts
\* used; a second guess 'gogh' or 'Vincent van Gogh' is judged correct and
\* ends the game as a success with empty feedback
C13_GoghWinsVanGoghDoesNot ==
  /\ FirstGuessMonetOnGogh
  /\ SecondGuessOnGogh(VanGogh)
       => /\ ~Val(response).result.correct
          /\ ~Val(response).result.finished
          /\ ~Val(response).result.success
          /\ Val(response).result.feedback # << >>
  /\ \A t \in { GoghSurname, Gogh } : SecondGuessOnGogh(t) => WinsTheGame

C13_Witness == SecondGuessOnGogh(VanGogh) /\ ~Val(response).result.correct

\* C14: the feedback of every recorded attempt, and of every judged guess
\* request, is empty exactly when the guess is correct
C14_FeedbackEmptyIffCorrect ==
  /\ \A i \in 1..Len(attemptsHistory) :
       (attemptsHistory[i].feedback = << >>) <=> attemptsHistory[i].correct
  /\ GuessJudged =>
       ((Val(response).result.feedback = << >>) <=> Val(response).result.correct)

\* the feedback a call of buildFeedback or of the client's feedback code
\* returned
FeedbackBuilt ==
  /\ IsSome(probe)
  /\ Val(probe).op \in { "buildFeedback", "clientFeedback" }
  /\ IsSome(Val(probe).out)

BuiltFeedback == Val(Val(probe).out)
GuessedOf(p) ==
  IF p.op = "buildFeedback" THEN p.in.guessedProfile ELSE p.in.guessedArtistData

LabelsOf(f) == [i \in 1..Len(f) |-> f[i].label]

\* C15: the details of the feedback for an incorrect guess are, in this
\* order, Birth year, Death year, Era hint (not always), Movement, Country,
\* Fame hint and, exactly when no profile was found, the data-absent notice;
\* no label occurs twice
C15_FeedbackOrder ==
  FeedbackBuilt =>
    /\ \E era \in { << >>, << "Era hint" >> } :
         LabelsOf(BuiltFeedback)
           = << "Birth year", "Death year" >> \o era
             \o << "Movement", "Country", "Fame hint" >>
             \o (IF IsSome(GuessedOf(Val(probe))) THEN << >> ELSE << "Data" >>)
    /\ \A i, j \in 1..Len(BuiltFeedback) :
         BuiltFeedback[i].label = BuiltFeedback[j].label => i = j

C15_Witness ==
  /\ FeedbackBuilt
  /\ Val(probe).op = "clientFeedback"
  /\ Len(BuiltFeedback) = 6
  /\ BuiltFeedback[3].label = "Era hint"

BuildFeedbackReturned ==
  /\ IsSome(probe)
  /\ Val(probe).op = "buildFeedback"
  /\ IsSome(Val(probe).out)

\* C16: for a guessed artist without a stored profile buildFeedback returns
\* exactly Birth year, Death year, Movement, Country and Fame hint, each with
\* status missing, then one info notice that no reference data was found,
\* and no Era hint
C16_NoProfileAllMissing ==
  (BuildFeedbackReturned /\ ~IsSome(Val(probe).in.guessedProfile)) =>
    /\ Len(BuiltFeedback) = 6
    /\ LabelsOf(BuiltFeedback)
         = << "Birth year", "Death year", "Movement", "Country", "Fame hint", "Data" >>
    /\ \A i \in 1..5 :
         BuiltFeedback[i].status = "missing" /\ BuiltFeedback[i].value = Dash
    /\ BuiltFeedback[6].status = "info"
    /\ BuiltFeedback[6].value
         = << "No reference yet for \"" >> \o Val(probe).in.guessName \o << "\"." >>

C16_Witness ==
  /\ BuildFeedbackReturned
  /\ ~IsSome(Val(probe).in.guessedProfile)
  /\ Val(probe).in.artYear = Some(Year1500)
  /\ IsSome(Val(probe).in.targetProfile)
  /\ Len(BuiltFeedback) = 6

EraHintOf(f) == { f[i] : i \in { k \in 1..Len(f) : f[k].label = "Era hint" } }

\* the status of the Era hint of an artwork of year y for an
\* artist with the given birth and death years
EraStatus(y, birth, death) ==
  LET deathYear ==
        IF IsSome(death) THEN death
        ELSE IF IsSome(birth)
          THEN Some(IF Val(birth) + 85 < CurrentYear THEN Val(birth) + 85
                    ELSE CurrentYear)
        ELSE None
  IN IF IsSome(birth) /\ y < Val(birth) THEN "earlier"
     ELSE IF IsSome(deathYear) /\ y > Val(deathYear) THEN "later"
     ELSE "match"

EraHintFor(year, birth, death) ==
  /\ BuildFeedbackReturned
  /\ IsSome(Val(probe).in.guessedProfile)
  /\ Val(probe).in.artYear = Some(year)
  /\ Val(Val(probe).in.guessedProfile).birth_year = birth
  /\ Val(Val(probe).in.guessedProfile).death_year = death

\* C17: buildFeedback emits the Era hint exactly when the artwork year is
\* numeric and a birth or death year of the guessed artist is known; its
\* status is earlier when the year is before a known birth, else later when
\* the year is after the death year (the known one, or the lesser of birth
\* plus 85 and the current year), else match; year 1500 with birth 1600 and
\* no death is earlier, with birth 1400 and death 1450 it is later
C17_EraHint ==
  /\ BuildFeedbackReturned =>
       LET in == Val(probe).in
           birth == Field(in.guessedProfile, "birth_year")
           death == Field(in.guessedProfile, "death_year")
           year == IF IsSome(in.artYear) THEN ParseInt(Val(in.artYear)) ELSE None
           hints == EraHintOf(BuiltFeedback)
       IN /\ (hints # { }) <=> (IsSome(year) /\ (IsSome(birth) \/ IsSome(death)))
          /\ \A h \in hints : h.status = EraStatus(Val(year), birth, death)
  /\ EraHintFor(Year1500, Some(1600), None)
       => \E h \in EraHintOf(BuiltFeedback) : h.status = "earlier"
  /\ EraHintFor(Year1500, Some(1400), Some(1450))
       => \E h \in EraHintOf(BuiltFeedback) : h.status = "later"

\* the artwork is dated after the current year and the artist, born 1950,
\* has no death year: the assumed death year is the current year
C17_Witness ==
  /\ EraHintFor(Year2030, Some(1950), None)
  /\ \E h \in EraHintOf(BuiltFeedback) : h.status = "later"

FameHintOf(f) == { f[i] : i \in { k \in 1..Len(f) : f[k].label = "Fame hint" } }

GuessedScore == Field(Val(probe).in.guessedProfile, "popularity_score")
TargetScore == Field(Val(probe).in.targetProfile, "popularity_score")

FameMissingOrMatch ==
  BuildFeedbackReturned =>
    \A h \in FameHintOf(BuiltFeedback) :
      IF ~IsSome(GuessedScore) \/ ~IsSome(TargetScore) THEN h.status = "missing"
      ELSE LET delta == Val(GuessedScore) - Val(TargetScore)
           IN (delta <= 7 /\ delta >= -7) <=> h.status = "match"

FameBeyondThreshold(high, low) ==
  (BuildFeedbackReturned /\ IsSome(GuessedScore) /\ IsSome(TargetScore)) =>
    \A h \in FameHintOf(BuiltFeedback) :
      LET delta == Val(GuessedScore) - Val(TargetScore)
      IN /\ delta > 7 => h.status = high
         /\ delta < -7 => h.status = low

\* C18 as stated: the Fame hint is missing when a popularity score is
\* unknown; else, with delta the guessed score minus the target's, it is
\* match when |delta| <= 7, later when delta > 7, earlier when delta < -7
C18_FameLaterEarlier ==
  FameMissingOrMatch /\ FameBeyondThreshold("later", "earlier")

\* C18: the Fame hint is missing when a popularity score is unknown; else,
\* with delta the guessed score minus the target's, it is match when
\* |delta| <= 7 (7 included) and different when delta > 7 (the target is
\* less famous) and when delta < -7 (try a more famous artist): the two
\* directions differ in the text of the hint, not in its status
C18_FameDifferent ==
  /\ FameMissingOrMatch
  /\ FameBeyondThreshold("different", "different")
  /\ (BuildFeedbackReturned /\ IsSome(GuessedScore) /\ IsSome(TargetScore)) =>
       \A h \in FameHintOf(BuiltFeedback) :
         LET delta == Val(GuessedScore) - Val(TargetScore)
         IN /\ delta > 7 => h.value = << "Artist of the day is less famous" >>
            /\ delta < -7 => h.value = << "Try a more famous artist" >>

C18_Witness ==
  /\ BuildFeedbackReturned
  /\ GuessedScore = Some(42)
  /\ TargetScore = Some(50)
  /\ \E h \in FameHintOf(BuiltFeedback) : h.status = "different"

DateResolved ==
  /\ IsSome(probe)
  /\ Val(probe).op = "resolvePlayableDate"
  /\ IsSome(Val(probe).out)

\* the text has the shape YYYY-MM-DD
DayShaped(c) ==
  /\ Len(c) = 10
  /\ \A i \in 1..10 : IF i \in { 5, 8 } THEN c[i] = "-" ELSE IsDigit(c[i])

NumberAt(c, from, to) == ParseDigits(SubSeq(c, from, to), 0)

\* a day of the calendar
RealDay(c) ==
  LET y == NumberAt(c, 1, 4)
      m == NumberAt(c, 6, 7)
      d == NumberAt(c, 9, 10)
      leap == (y % 4 = 0 /\ y % 100 # 0) \/ y % 400 = 0
  IN /\ d >= 1
     /\ \/ m \in { 1, 3, 5, 7, 8, 10, 12 } /\ d <= 31
        \/ m \in { 4, 6, 9, 11 } /\ d <= 30
        \/ m = 2 /\ d <= (IF leap THEN 29 ELSE 28)

DayNumber(c) == NumberAt(c, 1, 4) * 10000 + NumberAt(c, 6, 7) * 100 + NumberAt(c, 9, 10)

FirstTen(text) == SubSeq(text, 1, IF Len(text) < 10 THEN Len(text) ELSE 10)

\* what the resolver is to answer for a candidate day
ResolvedFrom(candidate) ==
  IF DayShaped(candidate) /\ RealDay(candidate)
       /\ DayNumber(candidate) <= DayNumber(TodayKey)
    THEN Some(candidate) ELSE None

\* C19 as stated: resolvePlayableDate returns null when the input is absent,
\* when its first 10 characters do not have the shape YYYY-MM-DD or are not a
\* day of the calendar, and when that day is after the current UTC day; else
\* it returns those 10 characters, today included
C19_FirstTenCharacters ==
  DateResolved =>
    Val(Val(probe).out)
      = IF ~IsSome(Val(probe).in) THEN None
        ELSE ResolvedFrom(FirstTen(Val(Val(probe).in)))

\* C19: resolvePlayableDate returns null when the input is absent, when the
\* first 10 characters of the input with surrounding whitespace removed do
\* not have the shape YYYY-MM-DD or are not a day of the calendar, and when
\* that day is after the current UTC day; else it returns those 10
\* characters, today included
C19_FirstTenAfterTrim ==
  DateResolved =>
    Val(Val(probe).out)
      = IF ~IsSome(Val(probe).in) THEN None
        ELSE ResolvedFrom(FirstTen(Trim(Val(Val(probe).in))))

C19_Witness ==
  /\ DateResolved
  /\ Val(probe).in = Some(TodayKey \o << "T", "2", "3", ":", "5", "9", "Z" >>)
  /\ Val(Val(probe).out) = Some(TodayKey)

TodayAnswered == IsSome(todayResponse)
TodayQuery == Val(todayResponse).query
TodayResult == Val(todayResponse).result

\* the puzzle served, if one is, is dated today or earlier
NeverServesFuture ==
  (TodayAnswered /\ TodayResult.status = 200) =>
    /\ DayShaped(TodayResult.date)
    /\ DayNumber(TodayResult.date) <= DayNumber(TodayKey)

\* the query asks for a day after today or for no day at all: a date that is
\* malformed, not of the calendar or in the future, or, without a date, an
\* offset that is a number and is positive or infinite
FutureOrOutOfRange(query) ==
  LET dateGiven == IsSome(query.date) /\ Val(query.date) # << >>
      offsetGiven == IsSome(query.offset) /\ Val(query.offset) # << >>
      offset == Number(Val(query.offset))
  IN IF dateGiven
       THEN ResolvedFrom(FirstTen(Trim(Val(query.date)))) = None
       ELSE /\ offsetGiven
            /\ \/ offset.kind = "infinite"
               \/ offset.kind = "finite" /\ offset.sign > 0 /\ offset.whole >= 1

\* C20: whatever the date and offset of the query, the puzzle endpoint serves
\* a puzzle dated today or earlier or answers not-found: it serves no puzzle
\* of the future, answers not-found to a query for a future or out-of-range
\* day, and never ends in an exception
C20_PastPuzzleOrNotFound ==
  /\ NeverServesFuture
  /\ TodayAnswered =>
       /\ "uncaught" \notin DOMAIN TodayResult
       /\ FutureOrOutOfRange(TodayQuery) => TodayResult.status = 404

\* the guess endpoint answered with a verdict or a give-up answer
PostAnswered == IsSome(response) /\ Val(response).result.status = 200
PostResult == Val(response).result
PostBody == Val(response).body

\* C21: a response of the guess endpoint carries the revealed artwork (the
\* answer, the year and the target profile) only when it reports the game
\* finished; a response with finished false carries none, and an error
\* response has no such field
C21_RevealOnlyWhenFinished ==
  /\ PostAnswered => (IsSome(PostResult.revealedArtwork) => PostResult.finished)
  /\ (IsSome(response) /\ PostResult.status # 200)
       => "revealedArtwork" \notin DOMAIN PostResult

C21_Witness ==
  /\ PostAnswered
  /\ ~PostResult.finished
  /\ ~PostResult.correct
  /\ PostResult.revealedArtwork = None
  /\ PostBody.date = Some(MonetDay)

PostErrored == IsSome(response) /\ Val(response).result.status # 200

\* the body has no guess to evaluate: no text, or blank text
GuessMissing(body) == ~IsSome(body.guess) \/ Trim(Val(body.guess)) = << >>

\* the date of the body is text that is not a day of the calendar
DateMalformed(body) ==
  /\ IsSome(body.date)
  /\ LET c == FirstTen(Trim(Val(body.date)))
     IN ~(DayShaped(c) /\ RealDay(c))

\* the date of the body (today without one) is a day up to today
DateOf(body) == IF IsSome(body.date) THEN FirstTen(Trim(Val(body.date))) ELSE TodayKey
DatePlayable(body) ==
  ~DateMalformed(body) /\ DayNumber(DateOf(body)) <= DayNumber(TodayKey)

NoVerdict(result) ==
  DOMAIN result \cap { "correct", "finished", "success", "feedback" } = { }

PageAnswered == IsSome(probe) /\ Val(probe).op = "Page"

\* where a request to the page ends: the home page with the puzzle of today
\* (rendered, or after the redirect to /), or the page of a puzzle
LandsOnHome(out) ==
  \/ "render" \in DOMAIN out /\ out.render = "Home"
  \/ "redirect" \in DOMAIN out /\ out.redirect = << "/" >>

\* the query asks for a date and says nothing else
DateOnly(query) == IsSome(query.date) /\ Val(query.date) # << >> /\ ~IsSome(query.offset)

C11_OneAttemptAndLockReleased ==
  /\ [][(IsSome(pending) /\ pending' # pending)
          => /\ attemptsHistory'
                  = Append(attemptsHistory, attemptsHistory'[Len(attemptsHistory')])
             /\ attemptsHistory'[Len(attemptsHistory')].guess = Val(pending).guess
             /\ ~submitLock'
             /\ ~IsSome(pending')]_vars
  /\ [][(~IsSome(pending) /\ attemptsHistory' # attemptsHistory /\ art' = art)
          => /\ Len(attemptsHistory') = Len(attemptsHistory) + 1
             /\ ~submitLock']_vars
  /\ [](submitLock <=> IsSome(pending))
  /\ [](submitLock => None \in ProfileAnswers(Val(pending).guess))

\* two submissions were recorded, and a third can be made
C11_Witness ==
  /\ art = 1 /\ ~finished
  /\ attemptsCount = 2
  /\ ~submitLock /\ ~IsSome(pending)
  /\ \E i \in 1..2 : attemptsHistory[i].guess = Bel

\* the endpoint answered a give-up request for a puzzle it found
GiveUpAnswered ==
  /\ IsSome(response)
  /\ Val(response).body.valid
  /\ Truthy(Val(response).body.giveUp)
  /\ Val(response).result.status \notin { 404, 500 }

\* C9: giving up in an unfinished session sets finished, clears success,
\* leaves the attempt history as it is and starts no lookup; and the endpoint
\* answers a give-up request with correct false, finished true, success false
\* and no feedback, whatever guess and attempt count the request carries.
C9_GiveUpEndsWithoutAttempt ==
  /\ [][handleGiveUp =>
          /\ finished' /\ ~success'
          /\ UNCHANGED << attemptsHistory, pending, submitLock >>]_vars
  /\ [](GiveUpAnswered =>
          LET r == Val(response).result
          IN /\ r.status = 200
             /\ ~r.correct /\ r.finished /\ ~r.success
             /\ r.feedback = << >>)

\* the player gave up after two attempts, and the endpoint answered a
\* give-up request that carried the right answer
C9_Witness ==
  /\ gaveUp /\ finished /\ ~success /\ attemptsCount = 2
  /\ GiveUpAnswered
  /\ Val(response).body.guess = Some(JoArp)

\* C10 as stated: every load of another puzzle leaves finished and success
\* false and the history empty, and nothing else ends the finished state.
C10_LoadAlwaysResets ==
  [][/\ art' # art => (~finished' /\ ~success' /\ attemptsHistory' = << >>)
     /\ (finished /\ ~finished') => art' # art]_vars

\* C10 amended: a load of another puzzle restores the progress stored for it
\* and, when none is stored, leaves finished and success false and the
\* history empty; no other step takes the session out of finished.
C10_LoadResetsOrRestores ==
  [][/\ art' # art =>
          IF IsSome(storage[art'])
            THEN Progress(finished', success', attemptsHistory') = Val(storage[art'])
            ELSE ~finished' /\ ~success' /\ attemptsHistory' = << >>
     /\ (finished /\ ~finished') => art' # art]_vars

\* yesterday's puzzle was loaded fresh after today's was finished
C10_Witness ==
  /\ art = 2
  /\ ~finished /\ ~success /\ attemptsHistory = << >>
  /\ IsSome(storage[1]) /\ Val(storage[1]).finished

\* C24: the zoom of the puzzle image is 1.0 exactly when the session is
\* finished: 1.0 in every finished state, above 1.0 in every unfinished one.
C24_ZoomIsOneIffFinished == art # 0 => (finished <=> Zoom = 1000)

\* the image is fully zoomed out before the last guess is made
C24_FourthMissZoomsOut ==
  art # 0 /\ ~finished /\ attemptsCount = 4 /\ Zoom = 1000

\* C25: recording one more attempt never increases the zoom, and the zoom
\* always stays within [1.0, 4.8].
C25_ZoomNonIncreasingWithinRange ==
  /\ [][(art # 0 /\ art' = art /\ attemptsCount' = attemptsCount + 1)
          => ZoomLegacy' <= ZoomLegacy]_vars
  /\ [](art # 0 => (1000 <= ZoomLegacy /\ ZoomLegacy <= 4800))

\* the same for the present component
C25_PresentZoomNonIncreasingWithinRange ==
  /\ [][(art # 0 /\ art' = art /\ attemptsCount' = attemptsCount + 1)
          => Zoom' <= Zoom]_vars
  /\ [](art # 0 => (1000 <= Zoom /\ Zoom <= 4800))


\* the number of the artwork year the feedback was built for, if it has one
BuiltForYear ==
  LET y == Val(probe).in.artYear
  IN IF Val(probe).op = "clientFeedback" THEN ParseInt(y)
     ELSE IF IsSome(y) THEN ParseInt(Val(y)) ELSE None

BirthStatus(year, birth, death) ==
  IF ~IsSome(birth) THEN "missing"
  ELSE IF IsSome(death) /\ IsSome(year)
            /\ Val(birth) <= Val(year) /\ Val(year) <= Val(death) THEN "match"
  ELSE "info"

DeathStatus(year, death) ==
  IF ~IsSome(death) THEN "missing"
  ELSE IF IsSome(year) /\ Val(year) > Val(death) THEN "earlier"
  ELSE "info"

\* C26: the Birth year detail is missing when the guessed artist's birth year
\* is unknown, match when birth and death are known and birth <= artwork
\* year <= death, info otherwise; the Death year detail is missing when the
\* death year is unknown, earlier when the artwork year is strictly after the
\* death year, info otherwise
C26_BirthAndDeathYearStatus ==
  FeedbackBuilt =>
    LET birth == Field(GuessedOf(Val(probe)), "birth_year")
        death == Field(GuessedOf(Val(probe)), "death_year")
    IN /\ BuiltFeedback[1].label = "Birth year"
       /\ BuiltFeedback[1].status = BirthStatus(BuiltForYear, birth, death)
       /\ BuiltFeedback[2].label = "Death year"
       /\ BuiltFeedback[2].status = DeathStatus(BuiltForYear, death)

\* an artwork of the year the guessed artist died: alive, and not earlier
C26_Witness ==
  /\ EraHintFor(Year1700, Some(1600), Some(1700))
  /\ BuiltFeedback[1].status = "match"
  /\ BuiltFeedback[1].value = << "1", "6", "0", "0" >>
  /\ BuiltFeedback[2].status = "info"

FieldDetail(label) ==
  BuiltFeedback[CHOOSE i \in 1..Len(BuiltFeedback) : BuiltFeedback[i].label = label]

Lacks(field) == ~IsSome(field) \/ Val(field) = << >>

FieldStatus(target, guessed) ==
  IF Lacks(guessed) THEN "missing"
  ELSE IF Lacks(target) THEN "info"
  ELSE IF normalizeStringServer(Val(target)) = normalizeStringServer(Val(guessed))
    THEN "match"
  ELSE "different"

\* C27: the Movement and the Country detail are missing when the guessed
\* artist lacks the field, info when the guessed artist has it and the
\* target lacks it, and otherwise match or different by equality of the
\* normalized values
C27_MovementAndCountryStatus ==
  BuildFeedbackReturned =>
    \A f \in { << "Movement", "movement" >>, << "Country", "country" >> } :
      FieldDetail(f[1]).status
        = FieldStatus(Field(Val(probe).in.targetProfile, f[2]),
                      Field(Val(probe).in.guessedProfile, f[2]))

\* a movement in another letter case matches, a country the guessed artist
\* lacks is missing
C27_Witness ==
  /\ BuildFeedbackReturned
  /\ Field(Val(probe).in.guessedProfile, "movement") = Some(DadaUpper)
  /\ Field(Val(probe).in.targetProfile, "movement") = Some(Dada)
  /\ FieldDetail("Movement").status = "match"
  /\ FieldDetail("Country").status = "missing"


\* the attempts a request reports as used: the count of the body rounded
\* down, 0 for a negative count and for what is not a number
UsedBefore(body) ==
  IF ~IsSome(body.attemptsUsed) THEN 0
  ELSE LET halves == Val(body.attemptsUsed)
           whole == IF halves % 2 = 0 THEN halves \div 2 ELSE (halves - 1) \div 2
       IN IF whole < 0 THEN 0 ELSE whole

\* C28: in every answer to a request that is not a give-up, success equals
\* correct, success implies finished, and finished holds exactly when the
\* guess is correct or the attempts used before it, rounded down and taken
\* as 0 when negative or not a number, plus one reach five
C28_FinishedIffCorrectOrLastAttempt ==
  (PostAnswered /\ ~Truthy(PostBody.giveUp)) =>
    /\ PostResult.success = PostResult.correct
    /\ PostResult.success => PostResult.finished
    /\ PostResult.finished
         <=> (PostResult.correct \/ UsedBefore(PostBody) + 1 >= 5)

\* a wrong guess after three and a half attempts leaves the game open
C28_Witness ==
  /\ PostAnswered
  /\ ~Truthy(PostBody.giveUp)
  /\ PostBody.attemptsUsed = Some(7)
  /\ ~PostResult.correct
  /\ ~PostResult.finished


\* the records of the plays table for a puzzle
PlaysOf(id) == { i \in 1..Len(plays) : plays[i].daily_id = id }

\* C29: for each finished session at most one play record is inserted into
\* the plays table, also when the session state changes or saved progress
\* is restored while an insert awaits its answer
C29_AtMostOnePlayPerSession ==
  \A id \in ArtIds : Cardinality(PlaysOf(id)) <= 1

\* C30: every play record inserted carries under its daily_id the attempts
\* and the outcome of the session of that puzzle: an insert is started only
\* for the finished session shown, with its number of attempts and its
\* outcome, also when another puzzle is loaded before the play was saved
C30_PlayOfItsPuzzle ==
  [][\A i \in 1..Len(inserts') :
       i > Len(inserts) /\ Len(inserts') > Len(inserts) =>
         /\ inserts'[i].daily_id = art'
         /\ finished'
         /\ inserts'[i].attempts = Len(attemptsHistory')
         /\ inserts'[i].success = success']_vars


====
